---- MODULE Spec2Model ----
(***************************************************************************)
(* A model of the tss-crypto library: the modular-arithmetic helpers, the  *)
(* safe-prime generator (package prime), Paillier encryption (package      *)
(* paillier) and Feldman VSS (package vss) over the elliptic-curve point   *)
(* wrapper (package ec).                                                   *)
(*                                                                         *)
(* The library is a set of synchronous functions.  Each part is modelled   *)
(* as a small state machine whose initial state holds the arguments of a   *)
(* call and whose actions are the calls (or, for the generator, the steps  *)
(* of its search loop).  Big integers are TLA+ integers; every number the  *)
(* model computes stays below 2^31.  A Go pointer that may be nil is a     *)
(* sequence of length at most one: <<>> is nil and <<x>> points to x.      *)
(***************************************************************************)
EXTENDS Integers, Sequences, FiniteSets, TLC

VARIABLES
  gBits,    \* prime: the bits argument of GenerateSafePrime
  gCfg,     \* prime: the *Config argument (nil already replaced by DefaultConfig)
  gPc,      \* prime: "call", "seed", "scan", "done", "error", "panic"
  gQ0,      \* prime: the normalized seed q0 of the current outer iteration
  gDelta,   \* prime: the delta of the inner window scan
  gCheck,   \* prime: the check that ended the last candidate ("sieve", a filter, "pass")
  gOut,     \* prime: the returned *SafePrime, <<>> while there is none
  pGen,     \* paillier: the call of generateKey in hand and its outcome, <<>> when none
  pKey,     \* paillier: the *PrivateKey in use, <<>> when there is none
  pCt,      \* paillier: the ciphertext in hand with the plaintexts it was made from
  pOut,     \* paillier: the outcome of the last Decrypt
  pRec,     \* paillier: the outcome of the last RecoverRandomness
  vArgs,    \* vss: the arguments of the call in hand (SplitSecret, or Verify)
  vSplit,   \* vss: what SplitSecret returned, with the polynomial it drew
  vRec,     \* vss: the last Reconstruct call and its outcome
  vVer,     \* vss: the last Verify call and its outcome
  vChk,     \* vss: what the last CheckIndices returned
  tTab,     \* prime: a group of the sieve table with the product of its first primes
  sScan     \* prime: a window scan of the combined sieve on a seed of any size

genVars == <<gBits, gCfg, gPc, gQ0, gDelta, gCheck, gOut>>
paiVars == <<pGen, pKey, pCt, pOut, pRec>>
vssVars == <<vArgs, vSplit, vRec, vVer, vChk>>
vars == <<gBits, gCfg, gPc, gQ0, gDelta, gCheck, gOut,
          pGen, pKey, pCt, pOut, pRec, vArgs, vSplit, vRec, vVer, vChk,
          tTab, sScan>>

(***************************************************************************)
(* Bounds of the model.                                                    *)
(***************************************************************************)
\* GenerateSafePrime is called with bits in 2..MaxBits.
MaxBits == 12
\* The second operand of a homomorphic Add is the encryption of a message in
\* 0..MaxMsg2 (or of N - 1) with a randomness of at most MaxRand2.
MaxMsg2 == 3
MaxRand2 == 3
\* A homomorphic Mul takes a scalar in -MaxScalar..MaxScalar, or one of a few
\* scalars around N, -N and 2N.
MaxScalar == 3
\* SplitSecret is called with a threshold of at most MaxThreshold and at most
\* MaxShares indices.
MaxThreshold == 3
MaxShares == 3
\* Indices and tampered values reach MaxOutside below 0 and MaxOutside above
\* N - 1.
MaxOutside == 1
\* Reconstruct is called on its own with a list of at most MaxListed shares.
MaxListed == 3
\* Key generation is called for a modulus of up to MaxKeyBits bits.
MaxKeyBits == 63

\* The safe primes that key generation takes its two primes from are generated
\* with up to MaxSafeHalf bits.
MaxSafeHalf == 14

\* The bit lengths of the primes of the keys in hand: under them N^4 is below
\* 2^31.
PaiHalves == {3, 4}
HomHalves == {3}
\* Reconstruct is called with a threshold of at most MaxSelected on lists that
\* begin with the shares it selects.
MaxSelected == 2
MaxWraps == 2
MaxOffset == 3
MaxScanned == 4

Nil == <<>>
Some(x) == <<x>>
IsNil(p) == Len(p) = 0
Deref(p) == p[1]

(***************************************************************************)
(* Package mod: thin wrappers over math/big.                               *)
(***************************************************************************)
Pow2(n) == 2 ^ n

RECURSIVE BitLen(_)
\* big.Int.BitLen: the length of |n| in bits, 0 for 0.
BitLen(n) == IF n = 0 THEN 0 ELSE IF n < 0 THEN BitLen(-n) ELSE 1 + BitLen(n \div 2)

RECURSIVE Gcd(_, _)
\* big.Int.GCD of two non-negative numbers.
Gcd(a, b) == IF b = 0 THEN a ELSE Gcd(b, a % b)

\* Mod: a mod m, Euclidean (the result is in [0, m) for m > 0).
Mod(a, m) == a % m

\* ModMul: (a * b) mod m.
ModMul(a, b, m) == (a * b) % m

\* ModAdd: (a + b) mod m.
ModAdd(a, b, m) == (a + b) % m

\* ModSub: (a - b) mod m, in [0, m).
ModSub(a, b, m) == (a - b) % m

RECURSIVE ExpMod(_, _, _)
\* big.Int.Exp for exp >= 0 and m > 0, by squaring; the base is reduced first.
ExpMod(b, e, m) ==
  IF e <= 0 THEN 1 % m
  ELSE LET h == ExpMod(b, e \div 2, m)
           s == (h * h) % m
       IN IF e % 2 = 1 THEN (s * (b % m)) % m ELSE s

\* ModExp: (base ^ exp) mod m.
ModExp(base, exp, m) == ExpMod(base, exp, m)

\* ModInverse: the inverse of a modulo m, or nil (with NoInverseError) when
\* a and m are not relatively prime.
ModInverse(a, m) ==
  IF Gcd(a % m, m) # 1 THEN Nil
  ELSE Some(CHOOSE x \in 0..(m - 1) : ((a % m) * x) % m = 1 % m)

(***************************************************************************)
(* Package prime: the safe-prime generator.                                *)
(***************************************************************************)
\* DefaultConfig().
DefaultConfig ==
  [WindowDeltaMax |-> 1024, MillerRabinRounds |-> 32,
   UseFermatQ |-> FALSE, UseFermatP |-> TRUE, FilterForSophie |-> TRUE]

\* The configurations GenerateSafePrime is called with: the default, the ones of
\* TestGenerateSafePrime_WithConfig scaled to the model, and the edge values of
\* each field.
Configs ==
  { DefaultConfig,
    [DefaultConfig EXCEPT !.UseFermatQ = TRUE],
    [DefaultConfig EXCEPT !.FilterForSophie = FALSE],
    [DefaultConfig EXCEPT !.UseFermatP = FALSE, !.FilterForSophie = FALSE],
    [DefaultConfig EXCEPT !.MillerRabinRounds = 0],
    [DefaultConfig EXCEPT !.MillerRabinRounds = -1, !.FilterForSophie = FALSE],
    [DefaultConfig EXCEPT !.WindowDeltaMax = 100],
    [DefaultConfig EXCEPT !.WindowDeltaMax = 0] }

primesGroups ==
  << <<5, 7, 11, 13, 17, 19, 23, 29, 31, 37, 41, 43, 47, 53>>,
     <<59, 61, 67, 71, 73, 79, 83, 89, 97>>,
     <<101, 103, 107, 109, 113, 127, 131, 137, 139>>,
     <<149, 151, 157, 163, 167, 173, 179, 181>>,
     <<191, 193, 197, 199, 211, 223, 227, 229>>,
     <<233, 239, 241, 251, 257, 263, 269>>,
     <<271, 277, 281, 283, 293, 307, 311>>,
     <<317, 331, 337, 347, 349, 353, 359>>,
     <<367, 373, 379, 383, 389, 397, 401>>,
     <<409, 419, 421, 431, 433, 439, 443>>,
     <<449, 457, 461, 463, 467, 479, 487>>,
     <<491, 499, 503, 509, 521, 523, 541>>,
     <<557, 563, 569, 571, 577, 587>>,
     <<593, 599, 601, 607, 613, 617>>,
     <<619, 631, 641, 643, 647, 653>>,
     <<659, 661, 673, 677, 683, 691>>,
     <<701, 709, 719, 727, 733, 739>>,
     <<743, 751, 757, 761, 769, 773>>,
     <<787, 797, 809, 811, 821, 823>>,
     <<827, 829, 839, 853, 857, 859>>,
     <<863, 877, 881, 883, 887, 907>>,
     <<911, 919, 929, 937, 941, 947>>,
     <<953, 967, 971, 977, 983, 991>> >>

\* The hard-coded products, each written in base 10^4, most significant limb
\* first (5431526412865007455 is <<543, 1526, 4128, 6500, 7455>>).
primeProductsBig ==
  << <<543, 1526, 4128, 6500, 7455>>,
     <<643, 7928, 8856, 4124, 9269>>,
     <<434, 3678, 7842, 3376, 6587>>,
     <<53, 8945, 2549, 9635, 2681>>,
     <<353, 4749, 4591, 9456, 2711>>,
     <<6, 1247, 1293, 788, 5343>>,
     <<16, 6996, 8195, 9879, 8201>>,
     <<54, 2676, 7464, 5309, 2519>>,
     <<123, 544, 6049, 9604, 8471>>,
     <<261, 8501, 5769, 7544, 661>>,
     <<477, 1180, 1251, 3372, 6009>>,
     <<924, 7077, 1792, 3088, 9629>>,
     <<3, 4508, 4838, 7665, 5991>>,
     <<4, 9010, 6336, 4053, 2829>>,
     <<6, 8015, 2772, 4095, 1437>>,
     <<9, 3667, 5925, 3564, 4987>>,
     <<14, 726, 5262, 2653, 8479>>,
     <<19, 1079, 9507, 8575, 6457>>,
     <<27, 8064, 4200, 3766, 6463>>,
     <<36, 1197, 7346, 4970, 343>>,
     <<47, 3672, 2124, 2673, 2757>>,
     <<64, 9424, 6899, 1697, 8839>>,
     <<85, 1648, 4114, 2000, 3101>> >>

\* primeProductsUint64[i] is the same number as primeProductsBig[i] (every
\* product is below 2^64, so Uint64() loses nothing).
primeProductsUint64 == primeProductsBig

\* The largest uint64, 2^64 - 1 = 18446744073709551615, in base 10^4.
MaxUint64 == <<1844, 6744, 737, 955, 1615>>

\* a <= b for two numbers in base 10^4 without leading zero limbs.
RECURSIVE LimbsLeq(_, _)
LimbsLeq(a, b) ==
  IF Len(a) # Len(b) THEN Len(a) < Len(b)
  ELSE IF a = <<>> THEN TRUE
  ELSE IF Head(a) # Head(b) THEN Head(a) < Head(b)
  ELSE LimbsLeq(Tail(a), Tail(b))

\* The number limbs (base 10^4) times the prime r, with the carry added at its
\* low end.
RECURSIVE LimbsTimes(_, _, _)
LimbsTimes(limbs, r, carry) ==
  IF limbs = <<>> THEN (IF carry = 0 THEN <<>> ELSE <<carry>>)
  ELSE LET n == Len(limbs)
           v == (limbs[n] * r) + carry
       IN Append(LimbsTimes(SubSeq(limbs, 1, n - 1), r, v \div 10000), v % 10000)

\* The limbs of a number without its last one.
Front(limbs) == IF limbs = <<>> THEN <<>> ELSE SubSeq(limbs, 1, Len(limbs) - 1)

\* A number in base 10^4 without its leading zero limbs (zero is <<0>>).
RECURSIVE LimbsStrip(_)
LimbsStrip(a) == IF Len(a) > 1 /\ Head(a) = 0 THEN LimbsStrip(Tail(a)) ELSE a

\* A natural number below 2^31 in base 10^4.
RECURSIVE LimbsOf(_)
LimbsOf(n) == IF n < 10000 THEN <<n>> ELSE Append(LimbsOf(n \div 10000), n % 10000)

\* a + b + carry in base 10^4.
RECURSIVE LimbsAdd(_, _, _)
LimbsAdd(a, b, carry) ==
  IF a = <<>> /\ b = <<>> THEN (IF carry = 0 THEN <<>> ELSE <<carry>>)
  ELSE LET x == IF a = <<>> THEN 0 ELSE a[Len(a)]
           y == IF b = <<>> THEN 0 ELSE b[Len(b)]
           v == x + y + carry
       IN Append(LimbsAdd(Front(a), Front(b), v \div 10000), v % 10000)

\* a - b - borrow in base 10^4, for a >= b + borrow; leading zero limbs stay.
RECURSIVE LimbsSubFrom(_, _, _)
LimbsSubFrom(a, b, borrow) ==
  IF a = <<>> THEN <<>>
  ELSE LET y == IF b = <<>> THEN 0 ELSE b[Len(b)]
           v == a[Len(a)] - y - borrow
       IN Append(LimbsSubFrom(Front(a), Front(b), IF v < 0 THEN 1 ELSE 0),
                 IF v < 0 THEN v + 10000 ELSE v)

LimbsSub(a, b) == LimbsStrip(LimbsSubFrom(a, b, 0))

\* The remainder of a number in base 10^4 by a prime of the tables.
RECURSIVE LimbsRem(_, _)
LimbsRem(a, r) ==
  IF a = <<>> THEN 0 ELSE ((LimbsRem(Front(a), r) * 10000) + a[Len(a)]) % r

LimbsReduce(y, m) == IF LimbsLeq(m, y) THEN LimbsSub(y, m) ELSE y

\* x mod m (big.Int.Mod, and % on uint64) for numbers in base 10^4.
RECURSIVE LimbsMod(_, _)
LimbsMod(x, m) ==
  IF ~LimbsLeq(m, x) THEN x ELSE LimbsReduce(LimbsMod(x, LimbsAdd(m, m, 0)), m)

\* 2^64 in base 10^4.
TwoTo64 == <<1844, 6744, 737, 955, 1616>>

\* The mutant of AddUint64: a sum of 63 bits, wrapping at 2^63.
AddUint64Narrow(a, b) ==
  LET sum == LimbsAdd(a, b, 0)
  IN IF LimbsLeq(<<922, 3372, 368, 5477, 5808>>, sum)
     THEN LimbsSub(sum, <<922, 3372, 368, 5477, 5808>>) ELSE sum

\* a + b on uint64: the sum modulo 2^64.
AddUint64(a, b) ==
  LET sum == LimbsAdd(a, b, 0)
  IN IF LimbsLeq(sum, MaxUint64) THEN sum ELSE LimbsSub(sum, TwoTo64)

smallPrimesForP == <<3, 5, 7, 11, 13, 17, 19, 23, 29, 31, 37, 41, 43, 47, 53>>

\* x mod product for 0 <= x < 2 * 10^9 and a product given by its limbs.  A
\* product with a non-zero limb above its last three, or whose third limb from
\* the end is 20 or more, is at least 2 * 10^9: x is smaller and is its own
\* remainder.  Any other product is a number the model can divide by.
RemProduct(x, limbs) ==
  LET n == Len(limbs)
      high == \E i \in 1..(n - 3) : limbs[i] # 0
      mid == IF n >= 3 THEN limbs[n - 2] ELSE 0
      low == (IF n >= 2 THEN limbs[n - 1] * 10000 ELSE 0) + limbs[n]
  IN IF high \/ mid >= 20 THEN x
     ELSE x % ((mid * 100000000) + low)

\* precomputeBaseRemainders: q0 mod each product.
precomputeBaseRemainders(q0) ==
  [i \in 1..Len(primeProductsBig) |-> RemProduct(q0, primeProductsBig[i])]

\* passesCombinedSieve: no table prime r has q = 0, q = (r-1)/2 or (with
\* filterForSophie) q = 1 modulo r, q being (baseRemainder + delta) % product.
passesCombinedSieve(baseRemainders, delta, filterForSophie) ==
  \A i \in 1..Len(baseRemainders) :
    LET qModProduct == RemProduct(baseRemainders[i] + delta, primeProductsUint64[i])
    IN \A j \in 1..Len(primesGroups[i]) :
         LET prime == primesGroups[i][j]
             residue == qModProduct % prime
         IN /\ residue # 0
            /\ residue # (prime - 1) \div 2
            /\ ~(filterForSophie /\ residue = 1)

\* precomputeBaseRemainders on a seed of any size, written in base 10^4.
precomputeBaseRemaindersWide(q0) ==
  [i \in 1..Len(primeProductsBig) |-> LimbsMod(q0, primeProductsBig[i])]

\* passesCombinedSieve on the remainders of a seed of any size: the sum
\* baseRemainder + delta is a uint64 sum, reduced by the product and then by
\* each prime of the group.
passesCombinedSieveWide(baseRemainders, delta, filterForSophie) ==
  \A i \in 1..Len(baseRemainders) :
    LET qModProduct == LimbsMod(AddUint64(baseRemainders[i], LimbsOf(delta)),
                                primeProductsUint64[i])
    IN \A j \in 1..Len(primesGroups[i]) :
         LET prime == primesGroups[i][j]
             residue == LimbsRem(qModProduct, prime)
         IN /\ residue # 0
            /\ residue # (prime - 1) \div 2
            /\ ~(filterForSophie /\ residue = 1)

\* big.Int.SetBit(q, i, 1).
SetBit(q, i) == IF (q \div Pow2(i)) % 2 = 1 THEN q ELSE q + Pow2(i)

\* randomQ0 on a buffer whose big-endian value is raw: the top byte is masked to
\* highBits bits, then bits 0, 1, qBits-1 and qBits-2 are set.
randomQ0(raw, qBits, highBits) ==
  LET byteLen == (qBits + 7) \div 8
      rest == Pow2(8 * (byteLen - 1))
      mask == Pow2(highBits) - 1
      top == ((raw \div rest) % 256) % (mask + 1)
      q == (top * rest) + (raw % rest)
      q1 == SetBit(q, 0)
      q2 == IF qBits > 1 THEN SetBit(q1, 1) ELSE q1
      q3 == SetBit(q2, qBits - 1)
  IN IF qBits >= 2 THEN SetBit(q3, qBits - 2) ELSE q3

\* The mutant of normalizeMod3: the case q0 = 1 (mod 3) adds 2 as well.
normalizeMod3AddTwo(q) == IF q % 3 = 2 THEN q ELSE q + 2

\* normalizeMod3: q0 moved to q0 = 2 (mod 3).
normalizeMod3(q) ==
  CASE q % 3 = 1 -> q + 4
    [] q % 3 = 0 -> q + 2
    [] OTHER -> q

\* buildCandidate: q = q0 + delta, p = 2q + 1.
buildCandidate(q0, delta) == [q |-> q0 + delta, p |-> 2 * (q0 + delta) + 1]

\* n is prime: no d with d * d <= n divides it (the square root of n is below
\* 2 to the power of half its bit length, rounded up).
IsPrime(n) ==
  /\ n >= 2
  /\ \A d \in 2..Pow2((BitLen(n) + 1) \div 2) : d * d > n \/ n % d # 0

\* big.Int.ProbablyPrime(rounds): it panics for rounds < 0 and is exact for
\* every input below 2^64, whatever the number of rounds.
ProbablyPrime(n, rounds) ==
  IF rounds < 0 THEN "panic" ELSE IF IsPrime(n) THEN "true" ELSE "false"

\* fermatBase2: 2^(n-1) = 1 (mod n).
fermatBase2(n) ==
  IF n < 2 THEN FALSE
  ELSE IF n = 2 \/ n = 3 THEN TRUE
  ELSE IF n % 2 = 0 THEN FALSE
  ELSE ExpMod(2, n - 1, n) = 1

\* The mutant of bitLenFilter: every candidate accepted whatever its length.
bitLenFilterNone(c, bits) == TRUE

\* 1) bitLenFilter.
bitLenFilter(c, bits) == BitLen(c.p) = bits

RECURSIVE smallPrimeFrom(_, _)
smallPrimeFrom(p, i) ==
  IF i > Len(smallPrimesForP) THEN TRUE
  ELSE IF p <= smallPrimesForP[i] THEN TRUE
  ELSE IF p % smallPrimesForP[i] = 0 THEN FALSE
  ELSE smallPrimeFrom(p, i + 1)

\* 2) smallPrimeFilterForP.
smallPrimeFilterForP(c) == smallPrimeFrom(c.p, 1)

\* The mutant of buildFilters: Miller-Rabin on p before Miller-Rabin on q.
buildFiltersSwapped(cfg) ==
  <<"bitLen", "smallPrimeP">>
  \o (IF cfg.UseFermatQ THEN <<"fermatQ">> ELSE <<>>)
  \o (IF cfg.UseFermatP THEN <<"fermatP">> ELSE <<>>)
  \o <<"mrP", "mrQ">>

\* buildFilters: the pipeline, each filter by its name.
buildFilters(cfg) ==
  <<"bitLen", "smallPrimeP">>
  \o (IF cfg.UseFermatQ THEN <<"fermatQ">> ELSE <<>>)
  \o (IF cfg.UseFermatP THEN <<"fermatP">> ELSE <<>>)
  \o <<"mrQ", "mrP">>

\* One filter on a candidate: "true", "false", or "panic".
applyFilter(name, c, bits, cfg) ==
  LET b(x) == IF x THEN "true" ELSE "false"
  IN CASE name = "bitLen" -> b(bitLenFilter(c, bits))
       [] name = "smallPrimeP" -> b(smallPrimeFilterForP(c))
       [] name = "fermatQ" -> b(fermatBase2(c.q))
       [] name = "fermatP" -> b(fermatBase2(c.p))
       [] name = "mrQ" -> ProbablyPrime(c.q, cfg.MillerRabinRounds)
       [] name = "mrP" -> ProbablyPrime(c.p, cfg.MillerRabinRounds)

RECURSIVE runFiltersFrom(_, _, _, _, _)
runFiltersFrom(c, filters, i, bits, cfg) ==
  IF i > Len(filters) THEN [res |-> "true", at |-> "pass"]
  ELSE LET r == applyFilter(filters[i], c, bits, cfg)
       IN IF r = "true" THEN runFiltersFrom(c, filters, i + 1, bits, cfg)
          ELSE [res |-> r, at |-> filters[i]]

\* runFilters: the filters in order, stopping at the first that fails.  The
\* result names the filter that ended the run ("pass" when none did).
runFilters(c, filters, bits, cfg) == runFiltersFrom(c, filters, 1, bits, cfg)

\* One iteration of the inner loop of generate on (q0, delta): the combined
\* sieve, then the candidate through the filters.
scanCandidate(q0, delta, bits, cfg) ==
  IF ~passesCombinedSieve(precomputeBaseRemainders(q0), delta, cfg.FilterForSophie)
  THEN [res |-> "false", at |-> "sieve"]
  ELSE runFilters(buildCandidate(q0, delta), buildFilters(cfg), bits, cfg)

\* The values of the buffer read from the random source: every value of qBits
\* bits, and the all-ones value one bit longer, whose top bit the mask clears.
RawSeeds(bits) == 0..(Pow2(bits - 1) - 1) \cup {Pow2(bits) - 1}

\* The seed generate works from when the random source delivers raw.
SeedOf(raw, bits) ==
  LET qBits == bits - 1
      highBits == IF qBits % 8 = 0 THEN 8 ELSE qBits % 8
  IN normalizeMod3(randomQ0(raw, qBits, highBits))

(***************************************************************************)
(* Package paillier.                                                       *)
(***************************************************************************)
\* generateKey from "N := p * q" on: the key of the primes p and q.
KeyFromPrimes(p, q) ==
  LET N == p * q
      phiN == (p - 1) * (q - 1)
      gcd == Gcd(p - 1, q - 1)
  IN [N |-> N, N2 |-> N * N, G |-> N + 1,
      Lambda |-> phiN \div gcd, PhiN |-> phiN, P |-> p, Q |-> q]

\* PrivateKey.Public.
Public(priv) == [N |-> priv.N, N2 |-> priv.N2, G |-> priv.G]

\* const MinModulusBits.
MinModulusBits == 2048

\* rand.Prime(random, half): an error when half < 2, else a prime of exactly
\* half bits whose two top bits are set.
RandPrime(half) ==
  IF half < 2 THEN {}
  ELSE {x \in (3 * Pow2(half - 2))..(Pow2(half) - 1) : IsPrime(x)}

\* generate, the inner loop on the window of q0: the first candidate that
\* passes every check, <<>> when the window has none or ProbablyPrime panics
\* before one passes.
scanWindow(q0, bits, cfg) ==
  LET ended == {d \in 0..cfg.WindowDeltaMax :
                  /\ d % 6 = 0 /\ d < cfg.WindowDeltaMax
                  /\ scanCandidate(q0, d, bits, cfg).res # "false"}
  IN IF ended = {} THEN Nil
     ELSE LET first == CHOOSE d \in ended : \A e \in ended : d <= e
              c == buildCandidate(q0, first)
          IN IF scanCandidate(q0, first, bits, cfg).res = "true"
               THEN Some([P |-> c.p, Q |-> c.q])
             ELSE Nil

\* What prime.GenerateSafePrime(half, DefaultConfig(), random) can return: the
\* first passing candidate of the window of a seed, for every seed the random
\* source can deliver.
SafePrimeOfBits(half) ==
  IF half < 3 THEN {}
  ELSE {Deref(w) : w \in {scanWindow(SeedOf(raw, half), half, DefaultConfig) :
                            raw \in RawSeeds(half)} \ {Nil}}

\* generateKey(random, bits, safe): the outcomes of a call. Below
\* MinModulusBits the size error; else the error of the random source, or the
\* key of two primes of bits / 2 bits, drawn again while they are equal (no
\* outcome when they are equal for ever).
generateKey(bits, safe) ==
  IF bits < MinModulusBits
    THEN {[err |-> "paillier: modulus too small (min 2048 bits)", key |-> Nil]}
  ELSE LET half == bits \div 2
           drawn == IF safe THEN {<<sp.P, sp.Q>> : sp \in SafePrimeOfBits(half)}
                    ELSE RandPrime(half) \X RandPrime(half)
       IN {[err |-> "random source", key |-> Nil]}
          \cup {[err |-> "none", key |-> Some(KeyFromPrimes(pq[1], pq[2]))] :
                  pq \in {x \in drawn : x[1] # x[2]}}

\* generateKey with safe = true, "p, q = safePrime.P, safePrime.Q": the primes
\* P and Q of the key that is built from the SafePrime.
SafeKeyPrimes(safePrime) == [P |-> safePrime.P, Q |-> safePrime.Q]

\* The primes of exactly half bits.
PrimesOfBits(half) == {x \in Pow2(half - 1)..(Pow2(half) - 1) : IsPrime(x)}

\* The *PrivateKey values that have the fields generateKey computes with
\* safe = false, for two distinct primes of half bits each.  generateKey
\* itself returns no modulus below MinModulusBits; the fields of PrivateKey are
\* exported, and Encrypt, Decrypt, Add, Mul and RecoverRandomness take any key.
OrdinaryKeys(half) ==
  {KeyFromPrimes(p, q) : p \in PrimesOfBits(half), q \in PrimesOfBits(half)} \
  {KeyFromPrimes(p, p) : p \in PrimesOfBits(half)}

\* The *PrivateKey values that have the fields generateKey computes with
\* safe = true, for the P and Q of a SafePrime value with P of half bits:
\* P = 2Q + 1, both prime, and Q odd and 2 modulo 3 as every candidate of the
\* generator is.
SafePrimeKeys(half) ==
  {KeyFromPrimes(SafeKeyPrimes(sp).P, SafeKeyPrimes(sp).Q) :
     sp \in {x \in [P : PrimesOfBits(half), Q : 1..Pow2(half - 1)] :
               /\ x.P = 2 * x.Q + 1
               /\ IsPrime(x.Q)
               /\ x.Q % 2 = 1 /\ x.Q % 3 = 2}}

\* The mutant of L: the division by N left out.
LNoDivision(u, N) == u - 1

\* L(u, N) = (u - 1) / N.
L(u, N) == (u - 1) \div N

\* The mutant of EncryptWithRandomness: the gcd check of r left out.
EncryptWithRandomnessNoGcd(pub, m, r) ==
  IF m < 0 \/ m >= pub.N THEN [err |-> "errMessageTooLarge", c |-> 0]
  ELSE IF r <= 0 \/ r >= pub.N THEN [err |-> "errRandomnessInvalid", c |-> 0]
  ELSE [err |-> "none",
        c |-> ModMul(ModExp(pub.G, m, pub.N2), ModExp(r, pub.N, pub.N2), pub.N2)]

\* EncryptWithRandomness: c = g^m * r^N mod N^2, after the checks of m and r.
EncryptWithRandomness(pub, m, r) ==
  IF m < 0 \/ m >= pub.N THEN [err |-> "errMessageTooLarge", c |-> 0]
  ELSE IF r <= 0 \/ r >= pub.N THEN [err |-> "errRandomnessInvalid", c |-> 0]
  ELSE IF Gcd(r, pub.N) # 1 THEN [err |-> "errRandomnessInvalid", c |-> 0]
  ELSE LET gm == ModExp(pub.G, m, pub.N2)
           rN == ModExp(r, pub.N, pub.N2)
       IN [err |-> "none", c |-> ModMul(gm, rN, pub.N2)]

\* randomRelativelyPrime: what the rejection loop can return for N when
\* rand.Int does not fail (its error is returned by the caller's model).
randomRelativelyPrime(N) == {r \in 1..(N - 1) : Gcd(r, N) = 1}

\* The mutant of Decrypt: the gcd check of c left out.
DecryptNoGcd(priv, c) ==
  IF c <= 0 \/ c >= priv.N2 THEN [err |-> "errCiphertextInvalid", m |-> 0]
  ELSE LET inv == ModInverse(L(ModExp(priv.G, priv.Lambda, priv.N2), priv.N), priv.N)
       IN IF IsNil(inv) THEN [err |-> "cannot invert L(g^lambda)", m |-> 0]
          ELSE [err |-> "none",
                m |-> ModMul(L(ModExp(c, priv.Lambda, priv.N2), priv.N), Deref(inv), priv.N)]

\* Decrypt: m = L(c^lambda mod N^2) * L(g^lambda mod N^2)^-1 mod N.
Decrypt(priv, c) ==
  IF c <= 0 \/ c >= priv.N2 THEN [err |-> "errCiphertextInvalid", m |-> 0]
  ELSE IF Gcd(c, priv.N2) # 1 THEN [err |-> "errCiphertextInvalid", m |-> 0]
  ELSE LET u == ModExp(c, priv.Lambda, priv.N2)
           Lc == L(u, priv.N)
           ug == ModExp(priv.G, priv.Lambda, priv.N2)
           Lg == L(ug, priv.N)
           inv == ModInverse(Lg, priv.N)
       IN IF IsNil(inv) THEN [err |-> "cannot invert L(g^lambda)", m |-> 0]
          ELSE [err |-> "none", m |-> ModMul(Lc, Deref(inv), priv.N)]

\* The mutant of Add: the ciphertexts added instead of multiplied.
AddPlus(pub, c1, c2) ==
  IF c1 <= 0 \/ c1 >= pub.N2 THEN [err |-> "errCiphertextInvalid", c |-> 0]
  ELSE IF c2 <= 0 \/ c2 >= pub.N2 THEN [err |-> "errCiphertextInvalid", c |-> 0]
  ELSE [err |-> "none", c |-> ModAdd(c1, c2, pub.N2)]

\* PublicKey.Add: c1 * c2 mod N^2.
Add(pub, c1, c2) ==
  IF c1 <= 0 \/ c1 >= pub.N2 THEN [err |-> "errCiphertextInvalid", c |-> 0]
  ELSE IF c2 <= 0 \/ c2 >= pub.N2 THEN [err |-> "errCiphertextInvalid", c |-> 0]
  ELSE [err |-> "none", c |-> ModMul(c1, c2, pub.N2)]

\* The mutant of Mul: the scalar used as it is, not reduced modulo N.
MulUnreduced(pub, c, k) ==
  IF c <= 0 \/ c >= pub.N2 THEN [err |-> "errCiphertextInvalid", c |-> 0]
  ELSE [err |-> "none", c |-> ModExp(c, k, pub.N2)]

\* PublicKey.Mul: c^(k mod N) mod N^2.
Mul(pub, c, k) ==
  IF c <= 0 \/ c >= pub.N2 THEN [err |-> "errCiphertextInvalid", c |-> 0]
  ELSE LET kMod == Mod(k, pub.N)
       IN [err |-> "none", c |-> ModExp(c, kMod, pub.N2)]

\* The mutant of RecoverRandomness: the exponent N where the code has
\* N^-1 mod phi(N).
RecoverRandomnessNoInverse(priv, c, m) ==
  LET mN == ModMul(m, priv.N, priv.N2)
      oneMinus == ModSub(1, mN, priv.N2)
      cDash == ModMul(c, oneMinus, priv.N2)
      M == ModInverse(priv.N, priv.PhiN)
  IN IF IsNil(M) THEN [err |-> "paillier: N^{-1} mod phi(N) undefined", r |-> 0]
     ELSE [err |-> "none", r |-> ModExp(cDash, priv.N, priv.N)]

\* PrivateKey.RecoverRandomness: r = (c * (1 - mN))^(N^-1 mod phi(N)) mod N.
RecoverRandomness(priv, c, m) ==
  LET mN == ModMul(m, priv.N, priv.N2)
      oneMinus == ModSub(1, mN, priv.N2)
      cDash == ModMul(c, oneMinus, priv.N2)
      M == ModInverse(priv.N, priv.PhiN)
  IN IF IsNil(M) THEN [err |-> "paillier: N^{-1} mod phi(N) undefined", r |-> 0]
     ELSE [err |-> "none", r |-> ModExp(cDash, Deref(M), priv.N)]

\* The ciphertext in hand: the outcome of the call that made it (err, c), the
\* call (how) and its arguments: the plaintext m and randomness r of the first
\* encryption, and for an Add the second encryption (m2, r2) and the two
\* operands (c1, c2), for a Mul the operand (c1) and the scalar (k).
Ciphertext(res, how, m, r, m2, r2, k, c1, c2) ==
  [err |-> res.err, c |-> res.c, how |-> how, m |-> m, r |-> r,
   m2 |-> m2, r2 |-> r2, k |-> k, c1 |-> c1, c2 |-> c2]

\* The ciphertexts handed to Add, Mul and Decrypt as they come: every integer
\* from -1 to N^2 + 1.
AnyCiphertext(pub) == (0 - 1)..(pub.N2 + 1)

\* The second operands of Add and the scalars of Mul the model draws.
Msg2Domain(N) == {m \in 0..(N - 1) : m <= MaxMsg2 \/ m = N - 1}
Rand2Domain(N) == {r \in randomRelativelyPrime(N) : r <= MaxRand2}
ScalarDomain(N) ==
  ((0 - MaxScalar)..MaxScalar) \cup {N - 1, N, N + 1, 2 * N, 0 - N, 0 - N - 1}

(***************************************************************************)
(* Package ec: points of an elliptic.Curve.  A curve is a record of its    *)
(* parameters (y^2 = x^3 - 3x + B over the field of P elements, base point *)
(* (Gx, Gy) of prime order N); the model's curves are small.  As in        *)
(* crypto/elliptic the point at infinity has the coordinates (0, 0).       *)
(***************************************************************************)
CurveA == [Name |-> "A", P |-> 7, B |-> 1, Gx |-> 4, Gy |-> 2, N |-> 5]
CurveB == [Name |-> "B", P |-> 11, B |-> 10, Gx |-> 2, Gy |-> 1, N |-> 7]

Abs(k) == IF k < 0 THEN 0 - k ELSE k

\* curve.IsOnCurve(x, y).
CurveIsOnCurve(curve, x, y) ==
  /\ x \in 0..(curve.P - 1) /\ y \in 0..(curve.P - 1)
  /\ (y * y) % curve.P = ((x * x * x) - (3 * x) + curve.B) % curve.P

\* curve.Add(x1, y1, x2, y2): the group law on affine coordinates.
CurveAdd(curve, x1, y1, x2, y2) ==
  LET prime == curve.P
  IN IF x1 = 0 /\ y1 = 0 THEN [x |-> x2, y |-> y2]
     ELSE IF x2 = 0 /\ y2 = 0 THEN [x |-> x1, y |-> y1]
     ELSE IF x1 = x2 /\ (y1 + y2) % prime = 0 THEN [x |-> 0, y |-> 0]
     ELSE LET slope == IF x1 = x2
                       THEN ModMul((3 * x1 * x1) - 3, Deref(ModInverse(2 * y1, prime)), prime)
                       ELSE ModMul(y2 - y1, Deref(ModInverse(x2 - x1, prime)), prime)
              x3 == ((slope * slope) - x1 - x2) % prime
              y3 == ((slope * (x1 - x3)) - y1) % prime
          IN [x |-> x3, y |-> y3]

\* curve.ScalarMult(x, y, k.Bytes()): k.Bytes() is the magnitude of k, its sign
\* is dropped; double and add over the bits of the magnitude.
RECURSIVE CurveMulNat(_, _, _, _)
CurveMulNat(curve, x, y, n) ==
  IF n = 0 THEN [x |-> 0, y |-> 0]
  ELSE LET h == CurveMulNat(curve, x, y, n \div 2)
           d == CurveAdd(curve, h.x, h.y, h.x, h.y)
       IN IF n % 2 = 1 THEN CurveAdd(curve, d.x, d.y, x, y) ELSE d
CurveScalarMult(curve, x, y, k) == CurveMulNat(curve, x, y, Abs(k))

\* A *Point is Nil or Some of a record of Curve (Nil or Some curve) and of X
\* and Y (each Nil or Some integer).  An operation of the package returns its
\* pointer, or panics.
Point(curve, x, y) == Some([Curve |-> curve, X |-> x, Y |-> y])
Returned(pt) == [panic |-> FALSE, pt |-> pt]
Panicked == [panic |-> TRUE, pt |-> Nil]
HasCoordinates(p) == ~IsNil(Deref(p).X) /\ ~IsNil(Deref(p).Y)

\* ec.ScalarBaseMult(curve, k) = k * G, for a curve and a scalar that are not
\* nil.
ScalarBaseMult(curve, k) ==
  LET r == CurveScalarMult(curve, curve.Gx, curve.Gy, k)
  IN Point(Some(curve), Some(r.x), Some(r.y))

\* Point.ScalarMult: nil for a nil point or a point without curve; the curve's
\* ScalarMult dereferences the coordinates.
PointScalarMult(p, k) ==
  IF IsNil(p) THEN Returned(Nil)
  ELSE IF IsNil(Deref(p).Curve) THEN Returned(Nil)
  ELSE IF ~HasCoordinates(p) THEN Panicked
  ELSE LET c == Deref(Deref(p).Curve)
           r == CurveScalarMult(c, Deref(Deref(p).X), Deref(Deref(p).Y), k)
       IN Returned(Point(Some(c), Some(r.x), Some(r.y)))

\* Point.Add: nil for a nil operand, an operand without curve, or operands of
\* different curves; the curve's Add dereferences the coordinates.
PointAdd(p, q) ==
  IF IsNil(p) \/ IsNil(q) THEN Returned(Nil)
  ELSE IF IsNil(Deref(p).Curve) \/ IsNil(Deref(q).Curve) THEN Returned(Nil)
  ELSE IF Deref(p).Curve # Deref(q).Curve THEN Returned(Nil)
  ELSE IF ~HasCoordinates(p) \/ ~HasCoordinates(q) THEN Panicked
  ELSE LET c == Deref(Deref(p).Curve)
           r == CurveAdd(c, Deref(Deref(p).X), Deref(Deref(p).Y),
                         Deref(Deref(q).X), Deref(Deref(q).Y))
       IN Returned(Point(Some(c), Some(r.x), Some(r.y)))

\* Point.Equal: pointer equality when either is nil (two distinct pointers are
\* never compared here with one of them nil), else p.X.Cmp(q.X) == 0 &&
\* p.Y.Cmp(q.Y) == 0.  Cmp answers 0 for two nil coordinates (it compares the
\* pointers first) and dereferences both when exactly one is nil; the Y are
\* compared only when the X are equal.
PointEqual(p, q) ==
  IF IsNil(p) \/ IsNil(q) THEN (IF IsNil(p) /\ IsNil(q) THEN "true" ELSE "false")
  ELSE IF IsNil(Deref(p).X) # IsNil(Deref(q).X) THEN "panic"
  ELSE IF Deref(p).X # Deref(q).X THEN "false"
  ELSE IF IsNil(Deref(p).Y) # IsNil(Deref(q).Y) THEN "panic"
  ELSE IF Deref(p).Y = Deref(q).Y THEN "true"
  ELSE "false"

\* Point.Copy: nil for nil; big.Int.Set dereferences the coordinates.
PointCopy(p) ==
  IF IsNil(p) THEN Returned(Nil)
  ELSE IF ~HasCoordinates(p) THEN Panicked
  ELSE Returned(Point(Deref(p).Curve, Deref(p).X, Deref(p).Y))

(***************************************************************************)
(* Package vss.  An Index and a share Value are Nil or Some integer, a     *)
(* *Share is Nil or Some of a record of Index, Value and Threshold, a      *)
(* *Commitment is Nil or Some of a record of Curve and Coeffs.             *)
(***************************************************************************)
Share(index, value, threshold) ==
  Some([Index |-> index, Value |-> value, Threshold |-> threshold])
Commitment(curve, coeffs) == Some([Curve |-> curve, Coeffs |-> coeffs])

\* generateRandomPolynomial: the secret, then the threshold - 1 coefficients
\* that rand.Int drew from [0, N).
generateRandomPolynomial(curve, threshold, secret, drawn) == <<secret>> \o drawn

\* The mutant of RandomCoefficients: rand.Int never draws N - 1.
RandomCoefficientsShort(curve, threshold) ==
  [1..(threshold - 1) -> 0..(curve.N - 2)]

\* What rand.Int can draw for the threshold - 1 coefficients.
RandomCoefficients(curve, threshold) ==
  [1..(threshold - 1) -> 0..(curve.N - 1)]

\* computeShare: the sum of a_i * index^i mod N for i below threshold.
RECURSIVE computeShareFrom(_, _, _, _, _, _)
computeShareFrom(curve, coefficients, index, threshold, i, share) ==
  IF i >= threshold THEN share
  ELSE LET exp == ModExp(index, i, curve.N)
           term == ModMul(coefficients[i + 1], exp, curve.N)
       IN computeShareFrom(curve, coefficients, index, threshold, i + 1,
                           ModAdd(share, term, curve.N))
computeShare(curve, coefficients, index, threshold) ==
  computeShareFrom(curve, coefficients, index, threshold, 0, 0)

\* SplitSecret, with the coefficients its polynomial draws.  computeShare
\* dereferences each index.
SplitSecret(curve, threshold, secret, indices, drawn) ==
  IF IsNil(curve) \/ IsNil(secret)
  THEN [err |-> "curve or secret is nil", commit |-> Nil, shares |-> <<>>]
  ELSE IF threshold < 1
  THEN [err |-> "threshold must be at least 1", commit |-> Nil, shares |-> <<>>]
  ELSE IF Len(indices) = 0
  THEN [err |-> "indices is nil or empty", commit |-> Nil, shares |-> <<>>]
  ELSE IF Len(indices) < threshold
  THEN [err |-> "indices length is less than threshold", commit |-> Nil, shares |-> <<>>]
  ELSE IF \E i \in 1..Len(indices) : IsNil(indices[i])
  THEN [err |-> "panic", commit |-> Nil, shares |-> <<>>]
  ELSE LET c == Deref(curve)
           polynomial == generateRandomPolynomial(c, threshold, Deref(secret), drawn)
           coeffs == [i \in 1..threshold |-> ScalarBaseMult(c, polynomial[i])]
           shares == [i \in 1..Len(indices) |->
                        Share(indices[i],
                              Some(computeShare(c, polynomial, Deref(indices[i]), threshold)),
                              threshold)]
       IN [err |-> "none", commit |-> Commitment(curve, coeffs), shares |-> shares]

\* The mutant of lagrangeDen: the differences taken the other way round.
RECURSIVE lagrangeDenSwapped(_, _, _, _)
lagrangeDenSwapped(shares, i, j, N) ==
  IF j > Len(shares) THEN 1
  ELSE IF j = i THEN lagrangeDenSwapped(shares, i, j + 1, N)
  ELSE LET rest == lagrangeDenSwapped(shares, i, j + 1, N)
           tmp == ModSub(Deref(Deref(shares[i]).Index), Deref(Deref(shares[j]).Index), N)
       IN ModMul(rest, tmp, N)

\* The mutant of checkIndicesFrom: duplicates looked up by the index as given,
\* not by its residue.
RECURSIVE checkIndicesRaw(_, _, _, _, _)
checkIndicesRaw(indices, i, N, seen, normalized) ==
  IF i > Len(indices) THEN [err |-> "none", normalized |-> normalized]
  ELSE IF IsNil(indices[i]) THEN [err |-> "panic", normalized |-> <<>>]
  ELSE LET norm == Mod(Deref(indices[i]), N)
       IN IF norm = 0
          THEN [err |-> "index after mod N cannot be zero", normalized |-> <<>>]
          ELSE IF Deref(indices[i]) \in seen
          THEN [err |-> "indices contain duplicates after normalization", normalized |-> <<>>]
          ELSE checkIndicesRaw(indices, i + 1, N, seen \cup {Deref(indices[i])},
                               Append(normalized, Some(norm)))

\* The loop of CheckIndices: each index reduced modulo N (mod.Mod
\* dereferences it), rejected when the residue is 0 or was seen before; the
\* loop returns at the first index it rejects.
RECURSIVE checkIndicesFrom(_, _, _, _, _)
checkIndicesFrom(indices, i, N, uniq, normalized) ==
  IF i > Len(indices) THEN [err |-> "none", normalized |-> normalized]
  ELSE IF IsNil(indices[i]) THEN [err |-> "panic", normalized |-> <<>>]
  ELSE LET norm == Mod(Deref(indices[i]), N)
       IN IF norm = 0
          THEN [err |-> "index after mod N cannot be zero", normalized |-> <<>>]
          ELSE IF norm \in uniq
          THEN [err |-> "indices contain duplicates after normalization", normalized |-> <<>>]
          ELSE checkIndicesFrom(indices, i + 1, N, uniq \cup {norm},
                                Append(normalized, Some(norm)))

\* CheckIndices.  curve.Params() dereferences the curve.
CheckIndices(curve, indices) ==
  IF Len(indices) = 0 THEN [err |-> "indices list is empty", normalized |-> <<>>]
  ELSE IF IsNil(curve) THEN [err |-> "panic", normalized |-> <<>>]
  ELSE checkIndicesFrom(indices, 1, Deref(curve).N, {}, <<>>)

\* lagrangeCoefficients: for each share the product of the other indices over
\* the product of their differences to its own, modulo N; Nil when a
\* denominator has no inverse.
RECURSIVE lagrangeNum(_, _, _, _)
lagrangeNum(shares, i, j, N) ==
  IF j > Len(shares) THEN 1
  ELSE IF j = i THEN lagrangeNum(shares, i, j + 1, N)
  ELSE LET rest == lagrangeNum(shares, i, j + 1, N)
       IN ModMul(rest, Deref(Deref(shares[j]).Index), N)
RECURSIVE lagrangeDen(_, _, _, _)
lagrangeDen(shares, i, j, N) ==
  IF j > Len(shares) THEN 1
  ELSE IF j = i THEN lagrangeDen(shares, i, j + 1, N)
  ELSE LET rest == lagrangeDen(shares, i, j + 1, N)
           tmp == ModSub(Deref(Deref(shares[j]).Index), Deref(Deref(shares[i]).Index), N)
       IN ModMul(rest, tmp, N)
lagrangeCoefficients(shares, N) ==
  IF \E i \in 1..Len(shares) : IsNil(ModInverse(lagrangeDen(shares, i, 1, N), N))
  THEN Nil
  ELSE Some([i \in 1..Len(shares) |->
               ModMul(lagrangeNum(shares, i, 1, N),
                      Deref(ModInverse(lagrangeDen(shares, i, 1, N), N)), N)])

\* The mutant of selectShares: the declared threshold of a share not compared.
RECURSIVE selectSharesAny(_, _, _, _)
selectSharesAny(shares, threshold, i, selected) ==
  IF i > Len(shares) THEN selected
  ELSE IF ~IsNil(shares[i])
  THEN LET more == Append(selected, shares[i])
       IN IF Len(more) = threshold THEN more
          ELSE selectSharesAny(shares, threshold, i + 1, more)
  ELSE selectSharesAny(shares, threshold, i + 1, selected)

\* The selection loop of Reconstruct: the shares that are not nil and carry
\* the threshold asked for, in order, until there are threshold of them.
RECURSIVE selectShares(_, _, _, _)
selectShares(shares, threshold, i, selected) ==
  IF i > Len(shares) THEN selected
  ELSE IF ~IsNil(shares[i]) /\ Deref(shares[i]).Threshold = threshold
  THEN LET more == Append(selected, shares[i])
       IN IF Len(more) = threshold THEN more
          ELSE selectShares(shares, threshold, i + 1, more)
  ELSE selectShares(shares, threshold, i + 1, selected)

\* The mutant of reconstructSum: every share weighted by the first
\* coefficient.
RECURSIVE reconstructSumFirst(_, _, _, _, _)
reconstructSumFirst(selected, lambdaCoeffs, threshold, i, N) ==
  IF i < 1 THEN 0
  ELSE LET part == ModMul(Deref(Deref(selected[i]).Value), lambdaCoeffs[1], N)
       IN ModAdd(reconstructSumFirst(selected, lambdaCoeffs, threshold, i - 1, N), part, N)

\* The sum of Value_i * lambda_i mod N over the first threshold selected
\* shares.
RECURSIVE reconstructSum(_, _, _, _, _)
reconstructSum(selected, lambdaCoeffs, threshold, i, N) ==
  IF i < 1 THEN 0
  ELSE LET part == ModMul(Deref(Deref(selected[i]).Value), lambdaCoeffs[i], N)
       IN ModAdd(reconstructSum(selected, lambdaCoeffs, threshold, i - 1, N), part, N)

\* Reconstruct.  make panics on a negative capacity.  lagrangeCoefficients
\* dereferences the Index of every selected share in its first pass when
\* there are two or more of them, and no Index when there is one or none; the
\* sum dereferences the Value of the first threshold selected shares, after
\* the coefficients were computed.
Reconstruct(curve, threshold, shares) ==
  IF IsNil(curve) THEN [err |-> "curve is nil", secret |-> Nil]
  ELSE IF Len(shares) < threshold THEN [err |-> "need at least threshold shares", secret |-> Nil]
  ELSE IF threshold < 0 THEN [err |-> "panic", secret |-> Nil]
  ELSE LET N == Deref(curve).N
           selected == selectShares(shares, threshold, 1, <<>>)
       IN IF Len(selected) < threshold
          THEN [err |-> "valid shares fewer than threshold", secret |-> Nil]
          ELSE IF /\ Len(selected) >= 2
                  /\ \E i \in 1..Len(selected) : IsNil(Deref(selected[i]).Index)
          THEN [err |-> "panic", secret |-> Nil]
          ELSE LET lambdaCoeffs == lagrangeCoefficients(selected, N)
               IN IF IsNil(lambdaCoeffs)
                  THEN [err |-> "failed to compute modular inverse", secret |-> Nil]
                  ELSE IF \E i \in 1..threshold : IsNil(Deref(selected[i]).Value)
                  THEN [err |-> "panic", secret |-> Nil]
                  ELSE [err |-> "none",
                        secret |-> Some(reconstructSum(selected, Deref(lambdaCoeffs),
                                                       threshold, threshold, N))]

\* The loop of Verify over Coeffs[1:]: result = result + c * exp, then
\* exp = exp * index mod N.
RECURSIVE verifyLoop(_, _, _, _, _, _)
verifyLoop(coeffs, i, result, exp, index, N) ==
  IF i > Len(coeffs) THEN Returned(result)
  ELSE LET pt == PointScalarMult(coeffs[i], exp)
       IN IF pt.panic THEN Panicked
          ELSE LET sum == PointAdd(result, pt.pt)
               IN IF sum.panic THEN Panicked
                  ELSE verifyLoop(coeffs, i + 1, sum.pt, ModMul(exp, index, N), index, N)

\* Share.Verify: "true", "false", or "panic" where the code dereferences nil.
Verify(s, curve, commit) ==
  IF IsNil(s) \/ IsNil(commit) THEN "false"
  ELSE IF IsNil(Deref(s).Index) \/ IsNil(Deref(s).Value) THEN "false"
  ELSE IF Deref(s).Threshold < 1 \/ Deref(s).Threshold # Len(Deref(commit).Coeffs) THEN "false"
  ELSE IF curve # Deref(commit).Curve THEN "false"
  ELSE IF IsNil(curve) THEN "panic"
  ELSE LET N == Deref(curve).N
           index == Deref(Deref(s).Index)
           first == PointCopy(Deref(commit).Coeffs[1])
       IN IF first.panic THEN "panic"
          ELSE LET result == verifyLoop(Deref(commit).Coeffs, 2, first.pt, index, index, N)
               IN IF result.panic THEN "panic"
                  ELSE PointEqual(result.pt,
                                  ScalarBaseMult(Deref(curve), Deref(Deref(s).Value)))

GenIdle ==
  /\ gBits = 0 /\ gCfg = DefaultConfig /\ gPc = "idle" /\ gQ0 = 0
  /\ gDelta = 0 /\ gCheck = "none" /\ gOut = Nil

PaiIdle == pGen = Nil /\ pKey = Nil /\ pCt = Nil /\ pOut = Nil /\ pRec = Nil

VssIdle == vArgs = Nil /\ vSplit = Nil /\ vRec = Nil /\ vVer = Nil /\ vChk = Nil

TabIdle == tTab = Nil /\ sScan = Nil

\* The arguments of a call of GenerateSafePrime.
InitGen ==
  /\ gBits \in 2..MaxBits
  /\ gCfg \in Configs
  /\ gPc = "call" /\ gQ0 = 0 /\ gDelta = 0 /\ gCheck = "none" /\ gOut = Nil
  /\ PaiIdle /\ VssIdle /\ TabIdle

\* The mutant of GenerateSafePrime: generate starts whatever bits is.
GenerateSafePrimeNoCheck ==
  /\ gPc = "call"
  /\ gPc' = "seed"
  /\ UNCHANGED <<gBits, gCfg, gQ0, gDelta, gCheck, gOut, paiVars, vssVars, tTab, sScan>>

\* GenerateSafePrime: the argument check, then generate starts.
GenerateSafePrime ==
  /\ gPc = "call"
  /\ gPc' = IF gBits < 3 THEN "error" ELSE "seed"
  /\ UNCHANGED <<gBits, gCfg, gQ0, gDelta, gCheck, gOut, paiVars, vssVars, tTab, sScan>>

\* generate, steps 1 to 4 of one outer iteration: the random source delivers a
\* buffer, q0 is drawn from it and normalized, and the scan starts at delta 0.
SampleQ0 ==
  /\ gPc = "seed"
  /\ \E raw \in RawSeeds(gBits) :
       /\ gQ0' = SeedOf(raw, gBits)
       /\ gDelta' = 0
       /\ gPc' = "scan"
  /\ UNCHANGED <<gBits, gCfg, gCheck, gOut, paiVars, vssVars, tTab, sScan>>

\* generate: io.ReadFull fails, and the error is returned.
RandomSourceFails ==
  /\ gPc = "seed"
  /\ gPc' = "error"
  /\ UNCHANGED <<gBits, gCfg, gQ0, gDelta, gCheck, gOut, paiVars, vssVars, tTab, sScan>>

\* generate, one iteration of the inner loop: the candidate at gDelta is
\* rejected (next delta), passes every filter (returned), or ProbablyPrime
\* panics on it (negative rounds).
ScanStep ==
  /\ gPc = "scan"
  /\ gDelta < gCfg.WindowDeltaMax
  /\ LET r == scanCandidate(gQ0, gDelta, gBits, gCfg)
         c == buildCandidate(gQ0, gDelta)
     IN /\ gCheck' = r.at
        /\ \/ /\ r.res = "false"
              /\ gDelta' = gDelta + 6
              /\ UNCHANGED <<gPc, gOut>>
           \/ /\ r.res = "true"
              /\ gOut' = Some([P |-> c.p, Q |-> c.q])
              /\ gPc' = "done"
              /\ UNCHANGED gDelta
           \/ /\ r.res = "panic"
              /\ gPc' = "panic"
              /\ UNCHANGED <<gDelta, gOut>>
  /\ UNCHANGED <<gBits, gCfg, gQ0, paiVars, vssVars, tTab, sScan>>

\* generate: the window is exhausted, back to the outer loop for a new seed
\* (the old seed, delta and candidate are dead from here on).
WindowExhausted ==
  /\ gPc = "scan"
  /\ gDelta >= gCfg.WindowDeltaMax
  /\ gPc' = "seed"
  /\ gQ0' = 0 /\ gDelta' = 0 /\ gCheck' = "none"
  /\ UNCHANGED <<gBits, gCfg, gOut, paiVars, vssVars, tTab, sScan>>

NextGen ==
  \/ GenerateSafePrime
  \/ SampleQ0
  \/ RandomSourceFails
  \/ ScanStep
  \/ WindowExhausted

\* The safe-prime generator alone.
SpecGen == InitGen /\ [][NextGen]_vars

\* GenerateKey(random, bits): generateKey with safe = false; the key returned,
\* if any, is the key in use from here on.
GenerateKey ==
  /\ ~IsNil(pGen)
  /\ ~Deref(pGen).safe /\ IsNil(Deref(pGen).out)
  /\ \E o \in generateKey(Deref(pGen).bits, FALSE) :
       /\ pGen' = Some([Deref(pGen) EXCEPT !.out = Some(o.err)])
       /\ pKey' = o.key
  /\ UNCHANGED <<pCt, pOut, pRec, genVars, vssVars, tTab, sScan>>

\* GenerateKeySafePrime(random, bits): generateKey with safe = true.
GenerateKeySafePrime ==
  /\ ~IsNil(pGen)
  /\ Deref(pGen).safe /\ IsNil(Deref(pGen).out)
  /\ \E o \in generateKey(Deref(pGen).bits, TRUE) :
       /\ pGen' = Some([Deref(pGen) EXCEPT !.out = Some(o.err)])
       /\ pKey' = o.key
  /\ UNCHANGED <<pCt, pOut, pRec, genVars, vssVars, tTab, sScan>>

\* PublicKey.Encrypt: r from randomRelativelyPrime, then EncryptWithRandomness;
\* when rand.Int fails on the random source, randomRelativelyPrime returns its
\* error and Encrypt returns it, whatever m is, without calling
\* EncryptWithRandomness (how is "encrypt", no r was drawn).
Encrypt ==
  /\ ~IsNil(pKey) /\ IsNil(pCt)
  /\ LET pub == Public(Deref(pKey))
     IN \E m \in (0 - 1)..pub.N :
          \/ \E r \in randomRelativelyPrime(pub.N) :
               pCt' = Some(Ciphertext(EncryptWithRandomness(pub, m, r),
                                      "enc", m, r, 0, 0, 0, 0, 0))
          \/ pCt' = Some(Ciphertext([err |-> "random source", c |-> 0],
                                    "encrypt", m, 0, 0, 0, 0, 0, 0))
  /\ UNCHANGED <<pGen, pKey, pOut, pRec, genVars, vssVars, tTab, sScan>>

\* PublicKey.EncryptWithRandomness on any m and r.
EncryptWithRandomnessCall ==
  /\ ~IsNil(pKey) /\ IsNil(pCt)
  /\ LET pub == Public(Deref(pKey))
     IN \E m \in (0 - 1)..pub.N, r \in 0..pub.N :
          pCt' = Some(Ciphertext(EncryptWithRandomness(pub, m, r),
                                 "enc", m, r, 0, 0, 0, 0, 0))
  /\ UNCHANGED <<pGen, pKey, pOut, pRec, genVars, vssVars, tTab, sScan>>

\* PrivateKey.Decrypt on the ciphertext in hand.
DecryptCall ==
  /\ ~IsNil(pKey) /\ ~IsNil(pCt) /\ IsNil(pOut) /\ IsNil(pRec)
  /\ Deref(pCt).err = "none"
  /\ pOut' = Some(Decrypt(Deref(pKey), Deref(pCt).c))
  /\ UNCHANGED <<pGen, pKey, pCt, pRec, genVars, vssVars, tTab, sScan>>

\* PublicKey.EncryptWithRandomness a second time on the plaintext of the fresh
\* encryption in hand, with a randomness of Rand2Domain.
EncryptAgainCall ==
  /\ ~IsNil(pKey) /\ ~IsNil(pCt) /\ IsNil(pOut) /\ IsNil(pRec)
  /\ Deref(pCt).err = "none" /\ Deref(pCt).how = "enc"
  /\ LET pub == Public(Deref(pKey))
         ct == Deref(pCt)
     IN /\ ct.m \in Msg2Domain(pub.N)
        /\ \E r2 \in Rand2Domain(pub.N) :
             pCt' = Some(Ciphertext(EncryptWithRandomness(pub, ct.m, r2), "again",
                                    ct.m, ct.r, ct.m, r2, 0, ct.c, 0))
  /\ UNCHANGED <<pGen, pKey, pOut, pRec, genVars, vssVars, tTab, sScan>>

\* PrivateKey.Decrypt on any integer from -1 to N^2 + 1.
DecryptAnyCall ==
  /\ ~IsNil(pKey) /\ IsNil(pCt) /\ IsNil(pOut) /\ IsNil(pRec)
  /\ \E c \in AnyCiphertext(Public(Deref(pKey))) :
       /\ pCt' = Some(Ciphertext([err |-> "none", c |-> c], "given",
                                 0, 0, 0, 0, 0, 0, 0))
       /\ pOut' = Some(Decrypt(Deref(pKey), c))
  /\ UNCHANGED <<pGen, pKey, pRec, genVars, vssVars, tTab, sScan>>

\* PrivateKey.RecoverRandomness on the fresh encryption in hand and its
\* plaintext.
RecoverRandomnessCall ==
  /\ ~IsNil(pKey) /\ ~IsNil(pCt) /\ IsNil(pOut) /\ IsNil(pRec)
  /\ Deref(pCt).err = "none" /\ Deref(pCt).how = "enc"
  /\ pRec' = Some(RecoverRandomness(Deref(pKey), Deref(pCt).c, Deref(pCt).m))
  /\ UNCHANGED <<pGen, pKey, pCt, pOut, genVars, vssVars, tTab, sScan>>

\* PublicKey.Add of a fresh encryption and a second fresh encryption.
AddCall ==
  /\ ~IsNil(pKey) /\ ~IsNil(pCt) /\ IsNil(pOut)
  /\ Deref(pCt).err = "none" /\ Deref(pCt).how = "enc"
  /\ LET pub == Public(Deref(pKey))
         ct == Deref(pCt)
     IN \E m2 \in Msg2Domain(pub.N), r2 \in Rand2Domain(pub.N) :
          LET c2 == EncryptWithRandomness(pub, m2, r2).c
          IN pCt' = Some(Ciphertext(Add(pub, ct.c, c2),
                                    "add", ct.m, ct.r, m2, r2, 0, ct.c, c2))
  /\ UNCHANGED <<pGen, pKey, pOut, pRec, genVars, vssVars, tTab, sScan>>

\* PublicKey.Mul of a fresh encryption by a scalar.
MulCall ==
  /\ ~IsNil(pKey) /\ ~IsNil(pCt) /\ IsNil(pOut)
  /\ Deref(pCt).err = "none" /\ Deref(pCt).how = "enc"
  /\ LET pub == Public(Deref(pKey))
         ct == Deref(pCt)
     IN \E k \in ScalarDomain(pub.N) :
          pCt' = Some(Ciphertext(Mul(pub, ct.c, k),
                                 "mul", ct.m, ct.r, 0, 0, k, ct.c, 0))
  /\ UNCHANGED <<pGen, pKey, pOut, pRec, genVars, vssVars, tTab, sScan>>

\* PublicKey.Add of any integer and one of the ciphertexts 2 and N.
AddAnyCall ==
  /\ ~IsNil(pKey) /\ IsNil(pCt)
  /\ LET pub == Public(Deref(pKey))
     IN \E c1 \in AnyCiphertext(pub), c2 \in {2, pub.N} :
          pCt' = Some(Ciphertext(Add(pub, c1, c2), "addany", 0, 0, 0, 0, 0, c1, c2))
  /\ UNCHANGED <<pGen, pKey, pOut, pRec, genVars, vssVars, tTab, sScan>>

\* PublicKey.Mul of any integer by the scalar 2.
MulAnyCall ==
  /\ ~IsNil(pKey) /\ IsNil(pCt)
  /\ LET pub == Public(Deref(pKey))
     IN \E c \in AnyCiphertext(pub) :
          pCt' = Some(Ciphertext(Mul(pub, c, 2), "mulany", 0, 0, 0, 0, 2, c, 0))
  /\ UNCHANGED <<pGen, pKey, pOut, pRec, genVars, vssVars, tTab, sScan>>

\* Encryption and decryption under a *PrivateKey in hand: a key of two
\* distinct primes of 3 or of 4 bits each, or a key of P and Q of one SafePrime.
InitPai ==
  /\ pKey \in {Some(k) : k \in UNION {OrdinaryKeys(h) \cup SafePrimeKeys(h) : h \in PaiHalves}}
  /\ pGen = Nil /\ pCt = Nil /\ pOut = Nil /\ pRec = Nil
  /\ GenIdle /\ VssIdle /\ TabIdle

NextPai ==
  \/ Encrypt
  \/ EncryptWithRandomnessCall
  \/ EncryptAgainCall
  \/ DecryptCall
  \/ DecryptAnyCall
  \/ RecoverRandomnessCall

SpecPai == InitPai /\ [][NextPai]_vars

\* One group of primesGroups, none of its primes multiplied yet.
InitTab ==
  /\ tTab \in {Some([group |-> i, taken |-> 0, product |-> <<1>>]) :
                 i \in 1..Len(primesGroups)}
  /\ GenIdle /\ PaiIdle /\ VssIdle /\ sScan = Nil

\* The next prime of the group is multiplied into the product.
MultiplyPrime ==
  /\ ~IsNil(tTab)
  /\ LET t == Deref(tTab)
         group == primesGroups[t.group]
     IN /\ t.taken < Len(group)
        /\ tTab' = Some([t EXCEPT !.taken = t.taken + 1,
                                  !.product = LimbsTimes(t.product, group[t.taken + 1], 0)])
  /\ UNCHANGED <<genVars, paiVars, vssVars, sScan>>

NextTab == MultiplyPrime

\* The seeds of a scan: a multiple of one product of the table, up to
\* MaxWraps times it, moved by up to MaxOffset either way; the small seeds
\* (the multiple zero) are the seeds of SpecGen.
ScanSeeds ==
  UNION {{LimbsAdd(LimbsTimes(primeProductsBig[i], k, 0), LimbsOf(e), 0) :
            e \in 0..MaxOffset}
         \cup {LimbsSub(LimbsTimes(primeProductsBig[i], k, 0), LimbsOf(e)) :
                 e \in IF k = 0 THEN {0} ELSE 1..MaxOffset} :
         i \in 1..Len(primeProductsBig), k \in 0..MaxWraps}

\* A seed of any size, about to be scanned.
InitScan ==
  /\ sScan \in {Some([q0 |-> q0, sophie |-> f, window |-> w, delta |-> 0,
                      rem |-> Nil, pass |-> Nil]) :
                  q0 \in ScanSeeds, f \in BOOLEAN,
                  w \in {c.WindowDeltaMax : c \in Configs}}
  /\ tTab = Nil
  /\ GenIdle /\ PaiIdle /\ VssIdle

\* generate, step 3: the remainders of the seed by every product.
PrecomputeCall ==
  /\ ~IsNil(sScan)
  /\ IsNil(Deref(sScan).rem)
  /\ sScan' = Some([Deref(sScan) EXCEPT
                      !.rem = Some(precomputeBaseRemaindersWide(Deref(sScan).q0))])
  /\ UNCHANGED <<genVars, paiVars, vssVars, tTab>>

\* generate, step 5.1 of one iteration of the inner loop: the combined sieve
\* at delta, and delta += 6.
SieveCall ==
  /\ ~IsNil(sScan)
  /\ ~IsNil(Deref(sScan).rem)
  /\ LET t == Deref(sScan)
     IN /\ t.delta < t.window
        /\ t.delta < 6 * MaxScanned
        /\ sScan' = Some([t EXCEPT
                            !.pass = Some(passesCombinedSieveWide(Deref(t.rem), t.delta,
                                                                 t.sophie)),
                            !.delta = t.delta + 6])
  /\ UNCHANGED <<genVars, paiVars, vssVars, tTab>>

NextScan ==
  \/ PrecomputeCall
  \/ SieveCall

\* The combined sieve alone, on seeds of any size.
SpecScan == InitScan /\ [][NextScan]_vars

\* The sieve tables alone.
SpecTab == InitTab /\ [][NextTab]_vars

\* Key generation: a call of GenerateKey or of GenerateKeySafePrime for a
\* modulus of up to MaxKeyBits bits, or the call
\* prime.GenerateSafePrime(half, prime.DefaultConfig(), random) that generateKey
\* makes for its two primes when safe is true, for primes of up to MaxSafeHalf
\* bits.
InitKey ==
  \/ /\ pGen \in {Some([bits |-> b, safe |-> f, out |-> Nil]) :
                    b \in 0..MaxKeyBits, f \in BOOLEAN}
     /\ pKey = Nil /\ pCt = Nil /\ pOut = Nil /\ pRec = Nil
     /\ GenIdle /\ VssIdle /\ TabIdle
  \/ /\ gBits \in 3..MaxSafeHalf
     /\ gCfg = DefaultConfig
     /\ gPc = "call" /\ gQ0 = 0 /\ gDelta = 0 /\ gCheck = "none" /\ gOut = Nil
     /\ PaiIdle /\ VssIdle /\ TabIdle

NextKey ==
  \/ GenerateKey
  \/ GenerateKeySafePrime
  \/ GenerateSafePrime
  \/ SampleQ0
  \/ RandomSourceFails
  \/ ScanStep
  \/ WindowExhausted

SpecKey == InitKey /\ [][NextKey]_vars

\* The homomorphic operations under a *PrivateKey in hand: a key of two
\* distinct primes of 3 bits each.
InitHom ==
  /\ pKey \in {Some(k) : k \in UNION {OrdinaryKeys(h) : h \in HomHalves}}
  /\ pGen = Nil /\ pCt = Nil /\ pOut = Nil /\ pRec = Nil
  /\ GenIdle /\ VssIdle /\ TabIdle

NextHom ==
  \/ Encrypt
  \/ AddCall
  \/ MulCall
  \/ AddAnyCall
  \/ MulAnyCall
  \/ DecryptCall

SpecHom == InitHom /\ [][NextHom]_vars


(***************************************************************************)
(* The calls of package vss.                                               *)
(***************************************************************************)
\* The injective sequences of length lo..hi over a set.
InjectiveSeqs(S, lo, hi) ==
  UNION {{f \in [1..n -> S] : \A i, j \in 1..n : i # j => f[i] # f[j]} : n \in lo..hi}

Max(a, b) == IF a > b THEN a ELSE b

\* SplitSecret on the arguments in hand; the coefficients are drawn only when
\* the arguments pass its checks.
SplitSecretCall ==
  /\ IsNil(vSplit)
  /\ LET ok == /\ ~IsNil(vArgs.curve) /\ ~IsNil(vArgs.secret)
               /\ vArgs.threshold >= 1
               /\ Len(vArgs.indices) >= vArgs.threshold
     IN \E drawn \in (IF ok THEN RandomCoefficients(Deref(vArgs.curve), vArgs.threshold)
                      ELSE {<<>>}) :
          vSplit' = Some([out |-> SplitSecret(vArgs.curve, vArgs.threshold, vArgs.secret,
                                              vArgs.indices, drawn),
                          drawn |-> drawn])
  /\ UNCHANGED <<vArgs, vRec, vVer, vChk, genVars, paiVars, tTab, sScan>>

\* Reconstruct on the returned shares at the positions sel, in that order:
\* any threshold - 1 or more of them, in any order.
ReconstructCall ==
  /\ ~IsNil(vSplit) /\ IsNil(vRec)
  /\ Deref(vSplit).out.err = "none"
  /\ LET shares == Deref(vSplit).out.shares
     IN \E sel \in InjectiveSeqs(1..Len(shares), Max(0, vArgs.threshold - 1), Len(shares)) :
          vRec' = Some([sel |-> sel,
                        out |-> Reconstruct(vArgs.curve, vArgs.threshold,
                                            [i \in 1..Len(sel) |-> shares[sel[i]]])])
  /\ UNCHANGED <<vArgs, vSplit, vVer, vChk, genVars, paiVars, tTab, sScan>>

\* Verify of a returned share against the returned commitment.
VerifyCall ==
  /\ ~IsNil(vSplit) /\ IsNil(vVer)
  /\ Deref(vSplit).out.err = "none"
  /\ LET out == Deref(vSplit).out
     IN \E k \in 1..Len(out.shares) :
          vVer' = Some([how |-> "genuine", orig |-> out.shares[k], share |-> out.shares[k],
                        res |-> Verify(out.shares[k], vArgs.curve, out.commit)])
  /\ UNCHANGED <<vArgs, vSplit, vRec, vChk, genVars, paiVars, tTab, sScan>>

\* The values an index or a share value is changed to.
OutsideRange(N) == (0 - MaxOutside)..(N - 1 + MaxOutside)

\* Verify of the first returned share with one field changed to a different
\* value, against the returned commitment.
TamperedVerifyCall ==
  /\ ~IsNil(vSplit) /\ IsNil(vVer)
  /\ Deref(vSplit).out.err = "none"
  /\ LET out == Deref(vSplit).out
         orig == Deref(out.shares[1])
         N == Deref(vArgs.curve).N
     IN \E how \in {"value", "index", "threshold"} :
          \E changed \in
               (CASE how = "value" ->
                       {[orig EXCEPT !.Value = Some(v)] : v \in OutsideRange(N) \ {Deref(orig.Value)}}
                  [] how = "index" ->
                       {[orig EXCEPT !.Index = Some(x)] : x \in OutsideRange(N) \ {Deref(orig.Index)}}
                  [] how = "threshold" ->
                       {[orig EXCEPT !.Threshold = t] : t \in (0..(MaxThreshold + 1)) \ {orig.Threshold}}) :
            vVer' = Some([how |-> how, orig |-> out.shares[1], share |-> Some(changed),
                          res |-> Verify(Some(changed), vArgs.curve, out.commit)])
  /\ UNCHANGED <<vArgs, vSplit, vRec, vChk, genVars, paiVars, tTab, sScan>>

\* Verify on the share, curve and commitment in hand.
VerifyArgumentsCall ==
  /\ IsNil(vVer)
  /\ vVer' = Some([how |-> "arguments", orig |-> vArgs.share, share |-> vArgs.share,
                   res |-> Verify(vArgs.share, vArgs.curve, vArgs.commit)])
  /\ UNCHANGED <<vArgs, vSplit, vRec, vChk, genVars, paiVars, tTab, sScan>>

\* The arguments of SplitSecret for the round trip: indices pairwise distinct
\* in [1, N), and three calls with a nil argument.
RoundTripArgs ==
  {[curve |-> Some(CurveA), threshold |-> t, secret |-> Some(x), indices |-> ix] :
     t \in 0..MaxThreshold, x \in 0..(CurveA.N - 1),
     ix \in InjectiveSeqs({Some(i) : i \in 1..(CurveA.N - 1)}, 0, MaxShares)}
  \cup {[curve |-> Nil, threshold |-> 1, secret |-> Some(1), indices |-> <<Some(1)>>],
        [curve |-> Some(CurveA), threshold |-> 1, secret |-> Nil, indices |-> <<Some(1)>>],
        [curve |-> Some(CurveA), threshold |-> 1, secret |-> Some(1), indices |-> <<Nil>>]}

\* The arguments of SplitSecret for verification: the first index is any
\* value in or around [0, N), the others are 1, 2, ...
VerificationArgs ==
  {[curve |-> Some(CurveA), threshold |-> t, secret |-> Some(x),
    indices |-> <<Some(first)>> \o [i \in 1..(t - 1) |-> Some(i)]] :
     t \in 1..MaxThreshold, x \in 0..(CurveA.N - 1), first \in OutsideRange(CurveA.N)}

\* Split and reconstruct.
InitVss ==
  /\ vArgs \in RoundTripArgs
  /\ vSplit = Nil /\ vRec = Nil /\ vVer = Nil /\ vChk = Nil
  /\ GenIdle /\ PaiIdle /\ TabIdle

NextVss ==
  \/ SplitSecretCall
  \/ ReconstructCall

SpecVss == InitVss /\ [][NextVss]_vars

\* Split and verify, the share as returned or changed.
InitVer ==
  /\ vArgs \in VerificationArgs
  /\ vSplit = Nil /\ vRec = Nil /\ vVer = Nil /\ vChk = Nil
  /\ GenIdle /\ PaiIdle /\ TabIdle

NextVer ==
  \/ SplitSecretCall
  \/ VerifyCall
  \/ TamperedVerifyCall

SpecVer == InitVer /\ [][NextVer]_vars

\* Reconstruct on the returned shares, the value of one of the first threshold
\* of them changed to a different number.
TamperedReconstructCall ==
  /\ ~IsNil(vSplit) /\ IsNil(vRec)
  /\ Deref(vSplit).out.err = "none"
  /\ LET shares == Deref(vSplit).out.shares
         N == Deref(vArgs.curve).N
     IN \E k \in 1..vArgs.threshold :
          \E v \in OutsideRange(N) \ {Deref(Deref(shares[k]).Value)} :
            vRec' = Some([sel |-> [i \in 1..Len(shares) |-> i],
                          at |-> k, value |-> v,
                          out |-> Reconstruct(vArgs.curve, vArgs.threshold,
                                              [shares EXCEPT
                                                 ![k] = Some([Deref(shares[k]) EXCEPT
                                                                !.Value = Some(v)])])])
  /\ UNCHANGED <<vArgs, vSplit, vVer, vChk, genVars, paiVars, tTab, sScan>>

NextTam ==
  \/ SplitSecretCall
  \/ TamperedReconstructCall

\* Split, and reconstruct from the shares with one value changed.
SpecTam == InitVer /\ [][NextTam]_vars

NextSplit == SplitSecretCall

\* SplitSecret alone, at indices in and around [0, N).
SpecSplit == InitVer /\ [][NextSplit]_vars

\* Reconstruct on the threshold and the list of shares in hand.
ReconstructArgumentsCall ==
  /\ IsNil(vRec)
  /\ vRec' = Some([sel |-> <<>>,
                   out |-> Reconstruct(vArgs.curve, vArgs.threshold, vArgs.shares)])
  /\ UNCHANGED <<vArgs, vSplit, vVer, vChk, genVars, paiVars, tTab, sScan>>

\* The arguments of Reconstruct: a threshold from -1 on and a list of shares,
\* each nil or with index 1, 2 or 3, value 0 or 1 and declared threshold 1 or
\* 2.
ListedShares ==
  {Nil} \cup {Share(Some(x), Some(v), t) : x \in {1, 2, 3}, v \in {0, 1}, t \in {1, 2}}
ReconstructArgs ==
  {[curve |-> Some(CurveA), threshold |-> t, shares |-> sh] :
     t \in (0 - 1)..MaxThreshold,
     sh \in UNION {[1..n -> ListedShares] : n \in 0..MaxListed}}

\* Reconstruct on any list of shares.
InitRec ==
  /\ vArgs \in ReconstructArgs
  /\ vSplit = Nil /\ vRec = Nil /\ vVer = Nil /\ vChk = Nil
  /\ GenIdle /\ PaiIdle /\ TabIdle

NextRec == ReconstructArgumentsCall

SpecRec == InitRec /\ [][NextRec]_vars

\* The arguments of a Reconstruct that selects its first t shares: t shares of
\* declared threshold t with indices from -1 to N and values 0 or 1, then
\* nothing or one more share.
SelectedArgs ==
  UNION {{[curve |-> Some(CurveA), threshold |-> t, shares |-> sel \o tail] :
            sel \in [1..t -> {Share(Some(x), Some(v), t) :
                                x \in (0 - 1)..CurveA.N, v \in {0, 1}}],
            tail \in {<<>>, <<Share(Some(1), Some(1), t)>>}} :
         t \in 1..MaxSelected}

\* Reconstruct on lists whose first shares are the selected ones.
InitSel ==
  /\ vArgs \in SelectedArgs
  /\ vSplit = Nil /\ vRec = Nil /\ vVer = Nil /\ vChk = Nil
  /\ GenIdle /\ PaiIdle /\ TabIdle

NextSel == ReconstructArgumentsCall

SpecSel == InitSel /\ [][NextSel]_vars

\* CheckIndices on the list of indices in hand.
CheckIndicesCall ==
  /\ IsNil(vChk)
  /\ vChk' = Some(CheckIndices(vArgs.curve, vArgs.indices))
  /\ UNCHANGED <<vArgs, vSplit, vRec, vVer, genVars, paiVars, tTab, sScan>>

\* The arguments of CheckIndices: up to MaxListed indices in or around [0, N).
CheckIndicesArgs ==
  {[curve |-> Some(CurveA), indices |-> ix] :
     ix \in UNION {[1..n -> {Some(x) : x \in OutsideRange(CurveA.N)}] : n \in 0..MaxListed}}

\* CheckIndices on any list of indices.
InitIdx ==
  /\ vArgs \in CheckIndicesArgs
  /\ vSplit = Nil /\ vRec = Nil /\ vVer = Nil /\ vChk = Nil
  /\ GenIdle /\ PaiIdle /\ TabIdle

NextIdx == CheckIndicesCall

SpecIdx == InitIdx /\ [][NextIdx]_vars

\* The arguments of Verify, well formed and malformed.  The well-formed call
\* has the share (1, 0, 2) of the polynomial 2 + 3x on CurveA and the
\* commitment (2G, 3G).
CoefficientAt(i) == ScalarBaseMult(CurveA, IF i = 1 THEN 2 ELSE 3)
PointsAt(i) ==
  {Nil, CoefficientAt(i), Point(Some(CurveA), Nil, Nil),
   Point(Some(CurveA), Deref(CoefficientAt(i)).X, Nil)}
VerifyShares ==
  {Nil} \cup {Share(x, v, t) : x \in {Nil, Some(1)}, v \in {Nil, Some(0)}, t \in 0..2}
VerifyCurves == {Nil, Some(CurveA), Some(CurveB)}
VerifyCommitments ==
  {Nil} \cup {Commitment(c, coeffs) :
                c \in VerifyCurves,
                coeffs \in {<<>>} \cup {<<c0>> : c0 \in PointsAt(1)}
                             \cup {<<c0, c1>> : c0 \in PointsAt(1), c1 \in PointsAt(2)}}
VerifyArgs ==
  {[share |-> sh, curve |-> c, commit |-> cm] :
     sh \in VerifyShares, c \in VerifyCurves, cm \in VerifyCommitments}

\* Verify on well-formed and malformed arguments.
InitMal ==
  /\ vArgs \in VerifyArgs
  /\ vSplit = Nil /\ vRec = Nil /\ vVer = Nil /\ vChk = Nil
  /\ GenIdle /\ PaiIdle /\ TabIdle

NextMal == VerifyArgumentsCall

SpecMal == InitMal /\ [][NextMal]_vars

(***************************************************************************)
(* Properties of the safe-prime generator (SpecGen).                       *)
(***************************************************************************)
\* C7: whatever the configuration, a SafePrime that GenerateSafePrime returns
\* has P of exactly bits bits, Q of exactly bits - 1 bits, P = 2Q + 1, and P
\* and Q both prime.
C7_SafePrimeCorrect ==
  gPc = "done" =>
    LET sp == Deref(gOut)
    IN /\ BitLen(sp.P) = gBits
       /\ BitLen(sp.Q) = gBits - 1
       /\ sp.P = (2 * sp.Q) + 1
       /\ IsPrime(sp.P)
       /\ IsPrime(sp.Q)

\* A 12-bit safe prime returned under the default configuration.
C7_Witness ==
  /\ gPc = "done" /\ gCfg = DefaultConfig /\ gBits = 12
  /\ gOut = Some([P |-> 4079, Q |-> 2039])

\* The deltas one window scans.
WindowDeltas(cfg) == {d \in 0..cfg.WindowDeltaMax : d % 6 = 0 /\ d < cfg.WindowDeltaMax}

\* C8: with the default configuration, GenerateSafePrime terminates for every
\* bits >= 3 under a fair random source: no accepted bit size makes every
\* candidate of every seed fail, so wherever a seed is about to be drawn some
\* seed has a candidate in its window that passes the sieve and every filter.
C8_SomeCandidatePasses ==
  (gPc = "seed" /\ gCfg = DefaultConfig) =>
    \E raw \in RawSeeds(gBits) :
      \E delta \in WindowDeltas(gCfg) :
        scanCandidate(SeedOf(raw, gBits), delta, gBits, gCfg).res = "true"

\* C19: the sieve tables have 23 entries, each primeProductsBig[i] equals the
\* product of the primes of primesGroups[i], and each fits in a uint64.
C19_TablesConsistent ==
  /\ Len(primesGroups) = 23 /\ Len(primeProductsBig) = 23
  /\ (~IsNil(tTab) /\ Deref(tTab).taken = Len(primesGroups[Deref(tTab).group])) =>
       /\ primeProductsBig[Deref(tTab).group] = Deref(tTab).product
       /\ LimbsLeq(primeProductsBig[Deref(tTab).group], MaxUint64)

\* One step of the generator as C24 allows it: the call ends in an error only
\* at the argument check with bits < 3 or at a read of the random source; with
\* bits < 3 the call ends there, with no seed read; an error comes with no
\* pair, and nothing follows it.
ErrorStep ==
  /\ (gPc # "error" /\ gPc' = "error") =>
       /\ (gPc = "call" /\ gBits < 3) \/ gPc = "seed"
       /\ gOut' = Nil
  /\ (gPc = "call" /\ gBits < 3) => (gPc' = "error" /\ gQ0' = 0)
  /\ (gPc = "call" /\ gBits >= 3) => gPc' = "seed"
  /\ gPc # "error"

\* C24: GenerateSafePrime returns an error if and only if bits < 3 or a read
\* from the random source fails; for bits < 3 it fails before reading any
\* randomness, and a read failure in any outer iteration is returned at once
\* with no pair and no further retry.
C24_ErrorOutcomes == [][ErrorStep]_vars

\* A read of the random source failed, in the first outer iteration or after
\* an exhausted window: the error is returned with no pair.
C24_Witness ==
  gPc = "error" /\ gBits >= 3 /\ gCheck = "none" /\ gOut = Nil

\* The candidate at a scanned delta: delta is a multiple of 6 below the
\* window, q is odd and 2 modulo 3, p = 2q + 1 is odd and not a multiple of 3.
CandidateShape ==
  (gPc = "scan" /\ gDelta < gCfg.WindowDeltaMax) =>
    LET c == buildCandidate(gQ0, gDelta)
    IN /\ gDelta % 6 = 0
       /\ c.q = gQ0 + gDelta
       /\ c.q % 2 = 1 /\ c.q % 3 = 2
       /\ c.p = (2 * c.q) + 1
       /\ c.p % 2 = 1 /\ c.p % 3 # 0

\* Every value randomQ0 returns for the bits of the call has exactly bits-1
\* bits and its lowest bit set.
SeedShape ==
  (gPc = "call" /\ gBits >= 3) =>
    LET qBits == gBits - 1
        highBits == IF qBits % 8 = 0 THEN 8 ELSE qBits % 8
    IN \A raw \in RawSeeds(gBits) :
         LET q0 == randomQ0(raw, qBits, highBits)
         IN BitLen(q0) = gBits - 1 /\ q0 % 2 = 1

\* A step that draws a seed: the seed of the scan is normalizeMod3 of an odd
\* value of exactly bits-1 bits.
SeedStep ==
  (gPc = "seed" /\ gPc' = "scan") =>
    /\ \E q0 \in {gQ0', gQ0' - 2, gQ0' - 4} :
         /\ BitLen(q0) = gBits - 1 /\ q0 % 2 = 1
         /\ normalizeMod3(q0) = gQ0'
    /\ gDelta' = 0

\* A candidate past the first of a window whose seed normalizeMod3 moved up
\* to bits bits.
C27_Witness ==
  /\ gPc = "scan" /\ gDelta >= 12 /\ gDelta < gCfg.WindowDeltaMax
  /\ gBits >= 8 /\ BitLen(gQ0) = gBits
  /\ (gQ0 + gDelta) % 3 = 2

\* C27: for every seed and every scanned delta (0, 6, 12, ... below
\* WindowDeltaMax) the candidate q = q0 + delta is odd and congruent to 2
\* modulo 3, and p = 2q + 1 is odd and not divisible by 3; the seed before
\* normalization has exactly bits-1 bits with its lowest bit set.
C27_CandidateInvariant == [](CandidateShape /\ SeedShape) /\ [][SeedStep]_vars

\* The value of a number in base 10^4 that is below 2^31.
RECURSIVE LimbsValue(_)
LimbsValue(a) == IF a = <<>> THEN 0 ELSE (LimbsValue(Front(a)) * 10000) + a[Len(a)]

\* Every prime of the sieve table.
TablePrimes == UNION {{primesGroups[i][j] : j \in 1..Len(primesGroups[i])} :
                        i \in 1..Len(primesGroups)}

\* The scan has run the sieve at least once; the delta it ran it on last.
Scanned == ~IsNil(sScan) /\ ~IsNil(Deref(sScan).pass)
LastDelta == Deref(sScan).delta - 6

\* By direct division: some table prime divides q, 2q + 1, or (when sophie)
\* q - 1.
DirectlyRejected(q, sophie) ==
  \E r \in TablePrimes :
    \/ LimbsRem(q, r) = 0
    \/ LimbsRem(LimbsAdd(q, q, 1), r) = 0
    \/ sophie /\ q # <<0>> /\ LimbsRem(LimbsSub(q, <<1>>), r) = 0

\* A scanned candidate whose remainder plus delta reaches the product of its
\* group, so that the second reduction acts, and which the sieve rejects
\* through q - 1 only.
C28_Witness ==
  /\ Scanned
  /\ LET t == Deref(sScan)
         q == LimbsAdd(t.q0, LimbsOf(LastDelta), 0)
     IN /\ LastDelta >= 6
        /\ \E i \in 1..Len(primeProductsBig) :
             LimbsLeq(primeProductsBig[i],
                      LimbsAdd(Deref(t.rem)[i], LimbsOf(LastDelta), 0))
        /\ t.pass = Some(FALSE)
        /\ t.sophie
        /\ ~DirectlyRejected(q, FALSE)

\* C28: for every seed q0, every scanned delta and every prime r of every
\* group i, ((q0 mod product_i) + delta) mod product_i mod r equals
\* (q0 + delta) mod r, the 64-bit sum not wrapping, so that
\* passesCombinedSieve returns false exactly when some table prime divides q,
\* divides 2q + 1, or (with FilterForSophie) divides q - 1.  On the seeds of
\* SpecGen the sieve of that specification gives the same answer.
C28_SieveAgrees ==
  Scanned =>
    LET t == Deref(sScan)
        d == LimbsOf(LastDelta)
        q == LimbsAdd(t.q0, d, 0)
        rem == Deref(t.rem)
    IN /\ \A i \in 1..Len(primeProductsBig) :
            /\ rem[i] = LimbsMod(t.q0, primeProductsBig[i])
            /\ LimbsLeq(LimbsAdd(rem[i], d, 0), MaxUint64)
            /\ \A j \in 1..Len(primesGroups[i]) :
                 LimbsRem(LimbsMod(AddUint64(rem[i], d), primeProductsUint64[i]),
                          primesGroups[i][j])
                   = LimbsRem(q, primesGroups[i][j])
       /\ Deref(t.pass) = ~DirectlyRejected(q, t.sophie)
       /\ Len(t.q0) = 1 =>
            Deref(t.pass) = passesCombinedSieve(precomputeBaseRemainders(LimbsValue(t.q0)),
                                                LastDelta, t.sophie)

\* The checks of one candidate in the order C26 states, the two Fermat checks
\* only when enabled.
CheckOrder(cfg) ==
  <<"sieve", "bitLen", "smallPrimeP">>
  \o (IF cfg.UseFermatQ THEN <<"fermatQ">> ELSE <<>>)
  \o (IF cfg.UseFermatP THEN <<"fermatP">> ELSE <<>>)
  \o <<"mrQ", "mrP">>

\* What one check answers on the candidate at (q0, delta), run on its own.
CheckAlone(name, q0, delta, bits, cfg) ==
  IF name = "sieve"
  THEN (IF passesCombinedSieve(precomputeBaseRemainders(q0), delta, cfg.FilterForSophie)
        THEN "true" ELSE "false")
  ELSE applyFilter(name, buildCandidate(q0, delta), bits, cfg)

\* One step of the scan as C26 allows it: the candidate ends at the first
\* check of the order that does not pass, and is returned only when every
\* check passes on it.
OrderedStep ==
  (gPc = "scan" /\ gDelta < gCfg.WindowDeltaMax) =>
    LET order == CheckOrder(gCfg)
        stops == {i \in 1..Len(order) :
                    CheckAlone(order[i], gQ0, gDelta, gBits, gCfg) # "true"}
    IN IF stops = {}
       THEN /\ gPc' = "done" /\ gCheck' = "pass"
            /\ gOut' = Some([P |-> (2 * (gQ0 + gDelta)) + 1, Q |-> gQ0 + gDelta])
       ELSE LET first == CHOOSE i \in stops : \A j \in stops : i <= j
            IN /\ gCheck' = order[first]
               /\ gOut' = Nil
               /\ gPc' = (IF CheckAlone(order[first], gQ0, gDelta, gBits, gCfg) = "panic"
                          THEN "panic" ELSE "scan")

\* The pipeline generate builds, run on the candidate at (gQ0, gDelta)
\* whatever the sieve said of it: it ends at the first check of the order
\* after the sieve that does not pass.
PipelineOrdered ==
  gPc = "scan" =>
    LET order == Tail(CheckOrder(gCfg))
        c == buildCandidate(gQ0, gDelta)
        r == runFilters(c, buildFilters(gCfg), gBits, gCfg)
        stops == {i \in 1..Len(order) : applyFilter(order[i], c, gBits, gCfg) # "true"}
    IN IF stops = {} THEN r.at = "pass" /\ r.res = "true"
       ELSE LET first == CHOOSE i \in stops : \A j \in stops : i <= j
            IN r.at = order[first] /\ r.res # "true"

\* A candidate of the scan that fails both Fermat checks and both
\* Miller-Rabin checks, scanned with both Fermat checks enabled.
C26_Witness ==
  /\ gPc = "scan" /\ gDelta >= 6 /\ gCheck = "sieve"
  /\ gCfg.UseFermatQ /\ gCfg.UseFermatP /\ gCfg.MillerRabinRounds >= 0
  /\ LET c == buildCandidate(gQ0, gDelta - 6)
     IN /\ bitLenFilter(c, gBits)
        /\ ~fermatBase2(c.q) /\ ~fermatBase2(c.p)
        /\ runFilters(c, buildFilters(gCfg), gBits, gCfg).at = "fermatQ"

\* C26: for every candidate the checks run in the order combined sieve, bit
\* length of p, trial division of p, Fermat on q (if enabled), Fermat on p (if
\* enabled), Miller-Rabin on q, Miller-Rabin on p; the first failing check ends
\* the candidate, and a pair is returned only after every enabled check passed
\* on that same candidate.
C26_CheckOrder == [][OrderedStep /\ PipelineOrdered]_vars

(***************************************************************************)
(* Properties of encryption and decryption (SpecPai).                      *)
(***************************************************************************)
\* The key in hand was made from two primes of equal bit length.
OrdinaryKey == ~IsNil(pKey) /\ BitLen(Deref(pKey).P) = BitLen(Deref(pKey).Q)
\* The key in hand was made from P and Q of one SafePrime.
SafePrimeKey == ~IsNil(pKey) /\ Deref(pKey).P = (2 * Deref(pKey).Q) + 1
\* A decryption of a fresh encryption has been made.
DecryptedFresh == ~IsNil(pCt) /\ ~IsNil(pOut) /\ Deref(pCt).how = "enc"

\* C2: under a key of two distinct primes of equal bit length, every m in
\* [0, N) and every r in [1, N) coprime to N encrypt without error, and
\* Decrypt(EncryptWithRandomness(m, r)) = m.
C2_RoundTrip ==
  OrdinaryKey =>
    /\ (/\ ~IsNil(pCt) /\ Deref(pCt).how = "enc"
        /\ Deref(pCt).m \in 0..(Deref(pKey).N - 1)
        /\ Deref(pCt).r \in randomRelativelyPrime(Deref(pKey).N))
         => Deref(pCt).err = "none"
    /\ DecryptedFresh =>
         /\ Deref(pOut).err = "none"
         /\ Deref(pOut).m = Deref(pCt).m

\* The largest message under N = 143 with the largest randomness, decrypted.
C2_Witness ==
  /\ OrdinaryKey /\ DecryptedFresh
  /\ Deref(pKey).N = 143 /\ Deref(pCt).m = 142 /\ Deref(pCt).r = 142
  /\ Deref(pOut) = [err |-> "none", m |-> 142]

\* C3: under a key from GenerateKeySafePrime, whose primes are P and Q of one
\* SafePrime, Decrypt(Encrypt(m)) = m for every m in [0, N).
C3_SafeKeyRoundTrip ==
  (SafePrimeKey /\ DecryptedFresh) =>
    /\ Deref(pOut).err = "none"
    /\ Deref(pOut).m = Deref(pCt).m

\* C11: under a key of two distinct primes of equal bit length, for every m in
\* [0, N) and every r in [1, N) coprime to N,
\* RecoverRandomness(EncryptWithRandomness(m, r), m) returns r, and
\* EncryptWithRandomness(m, recovered r) is the original ciphertext.
C11_RandomnessRecovered ==
  (OrdinaryKey /\ ~IsNil(pCt) /\ ~IsNil(pRec)) =>
    /\ Deref(pRec).err = "none"
    /\ Deref(pRec).r = Deref(pCt).r
    /\ EncryptWithRandomness(Public(Deref(pKey)), Deref(pCt).m, Deref(pRec).r)
         = [err |-> "none", c |-> Deref(pCt).c]

\* The randomness 141 recovered from the encryption of 77 under N = 143.
C11_Witness ==
  /\ OrdinaryKey /\ ~IsNil(pCt) /\ ~IsNil(pRec)
  /\ Deref(pKey).N = 143 /\ Deref(pCt).m = 77 /\ Deref(pCt).r = 141
  /\ Deref(pRec) = [err |-> "none", r |-> 141]

\* C20: EncryptWithRandomness returns a ciphertext exactly when 0 <= m < N,
\* 1 <= r < N and gcd(r, N) = 1; it returns the message-range error when m < 0
\* or m >= N, and otherwise the randomness error when r is out of range or
\* shares a factor with N; a ciphertext returned is G^m * r^N mod N^2, which
\* equals (1 + m*N) * r^N mod N^2.
C20_EncryptValidated ==
  (~IsNil(pCt) /\ Deref(pCt).how = "enc") =>
    LET ct == Deref(pCt)
        key == Deref(pKey)
        mInRange == ct.m >= 0 /\ ct.m < key.N
        rValid == ct.r >= 1 /\ ct.r < key.N /\ Gcd(ct.r, key.N) = 1
        rN == ExpMod(ct.r, key.N, key.N2)
    IN /\ (ct.err = "none") <=> (mInRange /\ rValid)
       /\ ~mInRange => ct.err = "errMessageTooLarge"
       /\ (mInRange /\ ~rValid) => ct.err = "errRandomnessInvalid"
       /\ ct.err = "none" =>
            /\ ct.c = (ExpMod(key.G, ct.m, key.N2) * rN) % key.N2
            /\ ct.c = ((1 + (ct.m * key.N)) * rN) % key.N2

\* A ciphertext returned for a message of at least 1 and a randomness of at
\* least 2.
C20_Witness ==
  /\ ~IsNil(pCt) /\ Deref(pCt).how = "enc" /\ Deref(pCt).err = "none"
  /\ Deref(pCt).m >= 1 /\ Deref(pCt).r >= 2
  /\ Deref(pCt).c # 1 + (Deref(pCt).m * Deref(pKey).N)

\* C21: Decrypt returns the ciphertext-invalid error for every c with c <= 0,
\* c >= N^2 or gcd(c, N^2) # 1, and under a key of two distinct primes of
\* equal bit length it returns a plaintext in [0, N) without error for every
\* other c.
C21_DecryptValidated ==
  (~IsNil(pCt) /\ ~IsNil(pOut) /\ Deref(pCt).how = "given") =>
    LET c == Deref(pCt).c
        key == Deref(pKey)
        invalid == c <= 0 \/ c >= key.N2 \/ Gcd(c, key.N2) # 1
    IN /\ invalid => Deref(pOut).err = "errCiphertextInvalid"
       /\ (OrdinaryKey /\ ~invalid) =>
            /\ Deref(pOut).err = "none"
            /\ Deref(pOut).m \in 0..(key.N - 1)

\* The integer N^2 - 1 decrypted under N = 143, and a plaintext returned.
C21_Witness ==
  /\ OrdinaryKey /\ ~IsNil(pCt) /\ ~IsNil(pOut) /\ Deref(pCt).how = "given"
  /\ Deref(pKey).N = 143 /\ Deref(pCt).c = Deref(pKey).N2 - 1
  /\ Deref(pOut).err = "none"

\* Two encryptions of one plaintext with two different randomness values are in
\* hand.
TwoRandomness ==
  /\ ~IsNil(pCt) /\ Deref(pCt).how = "again" /\ Deref(pCt).err = "none"
  /\ Deref(pCt).r # Deref(pCt).r2

\* The two encryptions in hand differ, and both decrypt to the plaintext.
DistinctCiphertexts ==
  /\ Deref(pCt).c1 # Deref(pCt).c
  /\ Decrypt(Deref(pKey), Deref(pCt).c1) = [err |-> "none", m |-> Deref(pCt).m]
  /\ Decrypt(Deref(pKey), Deref(pCt).c) = [err |-> "none", m |-> Deref(pCt).m]

\* C22: for a fixed public key and plaintext m, two different valid randomness
\* values r1 # r2 in [1, N) give two different ciphertexts, and both decrypt
\* to m.
C22_Injective == TwoRandomness => DistinctCiphertexts

\* The same under the keys of two distinct primes of equal bit length.
C22_OrdinaryKeyInjective == (OrdinaryKey /\ TwoRandomness) => DistinctCiphertexts

\* Under the safe-prime key N = 55 the randomness values 16 and 1 give one
\* ciphertext.
C22_Collision ==
  /\ SafePrimeKey /\ TwoRandomness
  /\ Deref(pCt).r = 16 /\ Deref(pCt).r2 = 1 /\ Deref(pCt).c1 = Deref(pCt).c

(***************************************************************************)
(* Properties of the homomorphic operations (SpecHom).                     *)
(***************************************************************************)
\* The ciphertexts taken as third operand of an Add.
SampleCiphertexts(pub) ==
  {EncryptWithRandomness(pub, m, r).c : m \in Msg2Domain(pub.N), r \in Rand2Domain(pub.N)}

\* C9: Decrypt(Add(Encrypt(m1), Encrypt(m2))) = (m1 + m2) mod N, and Add is
\* commutative and associative on valid ciphertexts.
C9_AddHomomorphic ==
  (~IsNil(pCt) /\ Deref(pCt).how = "add") =>
    LET ct == Deref(pCt)
        pub == Public(Deref(pKey))
    IN /\ ct.err = "none"
       /\ Add(pub, ct.c2, ct.c1) = Add(pub, ct.c1, ct.c2)
       /\ \A c3 \in SampleCiphertexts(pub) :
            Add(pub, Add(pub, ct.c1, ct.c2).c, c3)
              = Add(pub, ct.c1, Add(pub, ct.c2, c3).c)
       /\ ~IsNil(pOut) =>
            /\ Deref(pOut).err = "none"
            /\ Deref(pOut).m = (ct.m + ct.m2) % pub.N

\* A sum that wraps around N = 35, decrypted: 34 + 3 = 2 mod 35.
C9_Witness ==
  /\ ~IsNil(pCt) /\ ~IsNil(pOut) /\ Deref(pCt).how = "add"
  /\ Deref(pKey).N = 35 /\ Deref(pCt).m = 34 /\ Deref(pCt).m2 = 3
  /\ Deref(pOut) = [err |-> "none", m |-> 2]

\* C10: Decrypt(Mul(Encrypt(m), k)) = (k * m) mod N for any integer k.
C10_MulHomomorphic ==
  (~IsNil(pCt) /\ Deref(pCt).how = "mul") =>
    LET ct == Deref(pCt)
        pub == Public(Deref(pKey))
    IN /\ ct.err = "none"
       /\ ~IsNil(pOut) =>
            /\ Deref(pOut).err = "none"
            /\ Deref(pOut).m = (ct.k * ct.m) % pub.N

\* A negative scalar: -3 * 4 = 23 mod 35.
C10_Witness ==
  /\ ~IsNil(pCt) /\ ~IsNil(pOut) /\ Deref(pCt).how = "mul"
  /\ Deref(pKey).N = 35 /\ Deref(pCt).m = 4 /\ Deref(pCt).k = 0 - 3
  /\ Deref(pOut) = [err |-> "none", m |-> 23]

\* C16: Add and Mul return the CiphertextInvalid error for every input
\* ciphertext that is outside (0, N^2) or not coprime with N^2, as Decrypt
\* does.
C16_CiphertextValidated ==
  (~IsNil(pCt) /\ Deref(pCt).how \in {"addany", "mulany"}) =>
    LET ct == Deref(pCt)
        priv == Deref(pKey)
        invalid(c) == Decrypt(priv, c).err = "errCiphertextInvalid"
    IN (invalid(ct.c1) \/ (ct.how = "addany" /\ invalid(ct.c2))) =>
         ct.err = "errCiphertextInvalid"

\* prime.GenerateSafePrime has returned the SafePrime whose P and Q generateKey
\* takes, as they are, for the primes P and Q of the key.
SafePrimeReturned == gPc = "done" /\ gCfg = DefaultConfig /\ ~IsNil(gOut)

\* C18: the two primes P and Q of a key returned by GenerateKeySafePrime, which
\* are the P and the Q of the SafePrime returned to generateKey, are both safe
\* primes: (P - 1) / 2 and (Q - 1) / 2 are both prime.
C18_BothSafePrimes ==
  SafePrimeReturned =>
    LET key == SafeKeyPrimes(Deref(gOut))
    IN /\ IsPrime((key.P - 1) \div 2)
       /\ IsPrime((key.Q - 1) \div 2)

(***************************************************************************)
(* Properties of package vss (SpecVss, SpecVer, SpecMal).                  *)
(***************************************************************************)
\* The indices are pairwise distinct and in [1, N).
DistinctInRange(indices, N) ==
  /\ \A i \in 1..Len(indices) : ~IsNil(indices[i]) /\ Deref(indices[i]) \in 1..(N - 1)
  /\ \A i, j \in 1..Len(indices) : i # j => indices[i] # indices[j]

\* C1: for t >= 1, n >= t indices pairwise distinct in [1, N), a secret in
\* [0, N) and any drawn coefficients, SplitSecret succeeds and Reconstruct on
\* any t (or more) of the returned shares returns exactly the secret.
C1_RoundTrip ==
  (/\ ~IsNil(vArgs.curve) /\ ~IsNil(vArgs.secret)
   /\ vArgs.threshold >= 1 /\ Len(vArgs.indices) >= vArgs.threshold
   /\ DistinctInRange(vArgs.indices, Deref(vArgs.curve).N)
   /\ Deref(vArgs.secret) \in 0..(Deref(vArgs.curve).N - 1)) =>
    /\ ~IsNil(vSplit) => Deref(vSplit).out.err = "none"
    /\ (~IsNil(vRec) /\ Len(Deref(vRec).sel) >= vArgs.threshold) =>
         /\ Deref(vRec).out.err = "none"
         /\ Deref(vRec).out.secret = vArgs.secret

\* The secret 4 split with threshold 3 on a polynomial of degree 2 and
\* reconstructed from the three shares taken in the order 3, 1, 2.
C1_Witness ==
  /\ ~IsNil(vRec) /\ vArgs.threshold = 3 /\ vArgs.secret = Some(4)
  /\ Deref(vSplit).drawn = <<2, 3>>
  /\ Deref(vRec).sel = <<3, 1, 2>>
  /\ Deref(vRec).out = [err |-> "none", secret |-> Some(4)]

\* C4: after SplitSecret succeeds with a secret in [0, N), every returned
\* share verifies against the returned commitment on the same curve, for
\* every index value and every drawn coefficients.
C4_VerifyComplete ==
  (/\ ~IsNil(vVer) /\ Deref(vVer).how = "genuine"
   /\ Deref(vArgs.secret) \in 0..(Deref(vArgs.curve).N - 1)) =>
    Deref(vVer).res = "true"

\* The polynomial SplitSecret drew.
Polynomial == <<Deref(vArgs.secret)>> \o Deref(vSplit).drawn

\* The share SplitSecret returned and the changed share handed to Verify.
OrigShare == Deref(Deref(vVer).orig)
ChangedShare == Deref(Deref(vVer).share)

\* The change is one that leaves the share on the committed polynomial: a
\* value congruent to the original modulo N, or an index at which the
\* polynomial takes the original value modulo N (every index when the
\* threshold is 1).
ChangeKeepsRelation ==
  LET N == Deref(vArgs.curve).N
  IN \/ /\ Deref(vVer).how = "value"
        /\ Deref(ChangedShare.Value) % N = Deref(OrigShare.Value) % N
     \/ /\ Deref(vVer).how = "index"
        /\ computeShare(Deref(vArgs.curve), Polynomial, Deref(ChangedShare.Index),
                        vArgs.threshold) = Deref(OrigShare.Value) % N

\* C5: changing the value, the index or the threshold of a share from
\* SplitSecret to a different value makes Verify against the original
\* commitment return false, for every change that takes the share off the
\* committed polynomial (a changed threshold, a value not congruent to the
\* original modulo N, an index at which the polynomial takes another value).
C5_ChangeRejected ==
  (/\ ~IsNil(vVer) /\ Deref(vVer).how \in {"value", "index", "threshold"}
   /\ ~ChangeKeepsRelation) =>
    Deref(vVer).res = "false"

\* C25: for a non-nil share and a commitment to the coefficients a_0..a_{t-1}
\* on the same curve, with share.threshold = t, Verify returns true if and
\* only if share.value is congruent modulo N to the sum of a_j * index^j, the
\* powers of the index taken modulo N.
C25_VerifyDecides ==
  (~IsNil(vVer) /\ Deref(Deref(vVer).share).Threshold = vArgs.threshold) =>
    LET share == Deref(Deref(vVer).share)
        curve == Deref(vArgs.curve)
    IN (Deref(vVer).res = "true")
         <=> (Deref(share.Value) % curve.N
                = computeShare(curve, Polynomial, Deref(share.Index), vArgs.threshold))

\* The arguments in hand are malformed: a nil share, commitment, index or
\* value, a threshold below 1 or different from the number of coefficients, a
\* nil curve argument, a commitment without curve, a nil or coordinate-less
\* coefficient, or a curve that is not the commitment's.
Malformed(args) ==
  \/ IsNil(args.share) \/ IsNil(args.commit) \/ IsNil(args.curve)
  \/ IsNil(Deref(args.share).Index) \/ IsNil(Deref(args.share).Value)
  \/ Deref(args.share).Threshold < 1
  \/ Deref(args.share).Threshold # Len(Deref(args.commit).Coeffs)
  \/ IsNil(Deref(args.commit).Curve)
  \/ args.curve # Deref(args.commit).Curve
  \/ \E i \in 1..Len(Deref(args.commit).Coeffs) :
       LET c == Deref(args.commit).Coeffs[i]
       IN IsNil(c) \/ ~HasCoordinates(c)

\* C6: on every malformed input Verify returns false and does not panic.
C6_VerifyNeverRaises ==
  (~IsNil(vVer) /\ Deref(vVer).how = "arguments" /\ Malformed(vArgs)) =>
    Deref(vVer).res = "false"

\* C15: every share returned by a successful SplitSecret has an index in
\* [1, N), a value in [0, N) equal to f(index) mod N, and threshold t.
C15_SharesWellFormed ==
  (~IsNil(vSplit) /\ Deref(vSplit).out.err = "none") =>
    LET curve == Deref(vArgs.curve)
        shares == Deref(vSplit).out.shares
    IN \A i \in 1..Len(shares) :
         LET sh == Deref(shares[i])
         IN /\ Deref(sh.Index) \in 1..(curve.N - 1)
            /\ Deref(sh.Value) \in 0..(curve.N - 1)
            /\ Deref(sh.Value)
                 = computeShare(curve, Polynomial, Deref(sh.Index), vArgs.threshold)
            /\ sh.Threshold = vArgs.threshold

(***************************************************************************)
(* Properties of Reconstruct on any list of shares (SpecRec).              *)
(***************************************************************************)
\* The shares of a list that are not nil and declare the threshold t, in the
\* order of the list.
Usable(shares, t) ==
  LET Matches(sh) == ~IsNil(sh) /\ Deref(sh).Threshold = t
  IN SelectSeq(shares, Matches)

\* The secret the Lagrange formula gives for the shares chosen, or the error
\* of a denominator without inverse.
Interpolated(chosen, N) ==
  LET lambdas == lagrangeCoefficients(chosen, N)
  IN IF IsNil(lambdas)
     THEN [err |-> "failed to compute modular inverse", secret |-> Nil]
     ELSE [err |-> "none",
           secret |-> Some(reconstructSum(chosen, Deref(lambdas), Len(chosen), Len(chosen), N))]

\* C12: for a threshold t >= 1, Reconstruct fails when fewer than t shares are
\* passed or fewer than t of them are non-nil with declared threshold t;
\* otherwise its outcome is that of the first t such shares in input order,
\* whatever the nil, mismatched and later shares are.
C12_FirstUsableShares ==
  (~IsNil(vRec) /\ vArgs.threshold >= 1) =>
    LET t == vArgs.threshold
        usable == Usable(vArgs.shares, t)
        out == Deref(vRec).out
    IN /\ Len(vArgs.shares) < t => out.err = "need at least threshold shares"
       /\ (Len(vArgs.shares) >= t /\ Len(usable) < t) =>
            out.err = "valid shares fewer than threshold"
       /\ Len(usable) >= t =>
            out = Interpolated(SubSeq(usable, 1, t), Deref(vArgs.curve).N)

\* Threshold 2 on a nil share followed by the shares (1, 1) and (2, 0) of
\* threshold 2: the nil share is skipped and the secret is 2 * 1 - 0 = 2.
C12_Witness ==
  /\ ~IsNil(vRec) /\ vArgs.threshold = 2
  /\ vArgs.shares = <<Nil, Share(Some(1), Some(1), 2), Share(Some(2), Some(0), 2)>>
  /\ Deref(vRec).out = [err |-> "none", secret |-> Some(2)]

\* The outcomes of Reconstruct on the permutations of the list in hand.
PermutedOutcomes ==
  LET n == Len(vArgs.shares)
  IN {Reconstruct(vArgs.curve, vArgs.threshold, [i \in 1..n |-> vArgs.shares[perm[i]]]) :
        perm \in InjectiveSeqs(1..n, n, n)}

\* C13 as stated: for any list of at least t shares and any permutation of it,
\* the two Reconstruct calls give the same outcome.
C13_AnyListOrderIndependent ==
  (~IsNil(vRec) /\ vArgs.threshold >= 1 /\ Len(vArgs.shares) >= vArgs.threshold) =>
    PermutedOutcomes = {Deref(vRec).out}

\* The shares have indices pairwise distinct modulo N and lie on one
\* polynomial of degree below t.
OnOnePolynomial(shares, t, curve) ==
  /\ \A i, j \in 1..Len(shares) :
       i # j => Deref(Deref(shares[i]).Index) % curve.N # Deref(Deref(shares[j]).Index) % curve.N
  /\ \E poly \in [1..t -> 0..(curve.N - 1)] :
       \A i \in 1..Len(shares) :
         Deref(Deref(shares[i]).Value) % curve.N
           = computeShare(curve, poly, Deref(Deref(shares[i]).Index), t)

\* C13 amended: for a threshold t >= 1 and any list of shares, every
\* permutation of the list gives the same outcome when at most t of the shares
\* are non-nil with declared threshold t, and also when more than t are and
\* they lie on one polynomial of degree below t at indices pairwise distinct
\* modulo N.
C13_OrderIndependent ==
  (~IsNil(vRec) /\ vArgs.threshold >= 1) =>
    LET t == vArgs.threshold
        usable == Usable(vArgs.shares, t)
    IN (Len(usable) <= t \/ OnOnePolynomial(usable, t, Deref(vArgs.curve))) =>
         PermutedOutcomes = {Deref(vRec).out}

\* Threshold 2 on three shares of the constant polynomial 1 at the indices 3,
\* 1, 2: whichever two come first, the secret is 1.
C13_Witness ==
  /\ ~IsNil(vRec) /\ vArgs.threshold = 2
  /\ vArgs.shares = <<Share(Some(3), Some(1), 2), Share(Some(1), Some(1), 2),
                      Share(Some(2), Some(1), 2)>>
  /\ Deref(vRec).out = [err |-> "none", secret |-> Some(1)]

\* C17: every operation that takes a threshold rejects t < 1 with an error:
\* Reconstruct with t < 1 returns an error for every list of shares, never a
\* secret and never a panic.
C17_ThresholdRejected ==
  (~IsNil(vRec) /\ vArgs.threshold < 1) =>
    Deref(vRec).out.err \notin {"none", "panic"}

(***************************************************************************)
(* Properties of Reconstruct on the shares it selects (SpecSel).           *)
(***************************************************************************)
\* The t shares Reconstruct selects from the list in hand.
SelectedShares == SubSeq(Usable(vArgs.shares, vArgs.threshold), 1, vArgs.threshold)

\* Two of the shares have indices congruent modulo N.
CongruentIndices(shares, N) ==
  \E i, j \in 1..Len(shares) :
    /\ i # j
    /\ Deref(Deref(shares[i]).Index) % N = Deref(Deref(shares[j]).Index) % N

\* The constant terms of the polynomials of degree below t that pass through
\* the shares.
SecretsThrough(shares, t, curve) ==
  {poly[1] : poly \in
     {f \in [1..t -> 0..(curve.N - 1)] :
        \A i \in 1..Len(shares) :
          Deref(Deref(shares[i]).Value) % curve.N
            = computeShare(curve, f, Deref(Deref(shares[i]).Index), t)}}

\* C23: Reconstruct fails with the no-inverse error exactly when two of the t
\* selected shares have indices congruent modulo N; when the selected indices
\* are pairwise distinct modulo N it succeeds, and its result is the constant
\* term of the one polynomial through the selected shares, whatever follows
\* them in the list.
C23_DuplicateIndices ==
  ~IsNil(vRec) =>
    LET curve == Deref(vArgs.curve)
        out == Deref(vRec).out
    IN /\ (out.err = "failed to compute modular inverse")
            <=> CongruentIndices(SelectedShares, curve.N)
       /\ ~CongruentIndices(SelectedShares, curve.N) =>
            /\ out.err = "none"
            /\ SecretsThrough(SelectedShares, vArgs.threshold, curve) = {Deref(out.secret)}

\* Threshold 2 on the shares (-1, 1) and (4, 0), whose indices differ and are
\* congruent modulo 5: the no-inverse error.
C23_Witness ==
  /\ ~IsNil(vRec) /\ vArgs.threshold = 2
  /\ vArgs.shares = <<Share(Some(0 - 1), Some(1), 2), Share(Some(4), Some(0), 2)>>
  /\ Deref(vRec).out.err = "failed to compute modular inverse"

(***************************************************************************)
(* Properties of Reconstruct on changed shares (SpecTam).                  *)
(***************************************************************************)
\* The first threshold indices of the split are pairwise distinct and non-zero
\* modulo N.
SelectedIndicesValid ==
  LET N == Deref(vArgs.curve).N
  IN /\ \A i \in 1..vArgs.threshold : Deref(vArgs.indices[i]) % N # 0
     /\ \A i, j \in 1..vArgs.threshold :
          i # j => Deref(vArgs.indices[i]) % N # Deref(vArgs.indices[j]) % N

\* The changed value is not congruent to the value of the split polynomial at
\* the index of the share it replaces.
ValueTampered ==
  LET N == Deref(vArgs.curve).N
      rec == Deref(vRec)
  IN rec.value % N
       # computeShare(Deref(vArgs.curve), Polynomial,
                      Deref(vArgs.indices[rec.at]), vArgs.threshold)

\* C29: when the t selected shares have indices pairwise distinct and non-zero
\* modulo N and exactly one of them carries a value different (modulo N) from
\* the split polynomial's value at its index, Reconstruct returns without
\* error a value different from the secret.
C29_NotAuthenticated ==
  (~IsNil(vRec) /\ SelectedIndicesValid /\ ValueTampered) =>
    /\ Deref(vRec).out.err = "none"
    /\ Deref(vRec).out.secret # Some(Deref(vArgs.secret) % Deref(vArgs.curve).N)

\* A threshold-3 split at the indices -1, 1, 2 whose second share was changed:
\* Reconstruct returns a secret, and not the one that was split.
C29_Witness ==
  /\ ~IsNil(vRec) /\ SelectedIndicesValid /\ ValueTampered
  /\ vArgs.threshold = 3 /\ vArgs.indices[1] = Some(0 - 1)
  /\ Deref(vRec).at = 2
  /\ Deref(vRec).out.err = "none"
  /\ Deref(vRec).out.secret # vArgs.secret

(***************************************************************************)
(* Properties of the share values of a split (SpecSplit).                  *)
(***************************************************************************)
\* The shares at the positions held have indices pairwise distinct and
\* non-zero modulo N.
HeldIndicesValid(held) ==
  LET N == Deref(vArgs.curve).N
  IN /\ \A i \in held : Deref(vArgs.indices[i]) % N # 0
     /\ \A i, j \in held :
          i # j => Deref(vArgs.indices[i]) % N # Deref(vArgs.indices[j]) % N

\* The values at the positions held of the shares of a split of secret with
\* the coefficients drawn.
ViewOf(secret, drawn, held) ==
  [i \in held |-> computeShare(Deref(vArgs.curve), <<secret>> \o drawn,
                               Deref(vArgs.indices[i]), vArgs.threshold)]

\* The views at the positions held that the splits of secret can give.
ViewsOf(secret, held) ==
  {ViewOf(secret, drawn, held) :
     drawn \in RandomCoefficients(Deref(vArgs.curve), vArgs.threshold)}

\* C30: for t >= 2 and any t-1 shares of one split at indices pairwise
\* distinct and non-zero modulo N, every secret in [0, N) is consistent with
\* those shares through exactly one choice of the coefficients a_1..a_{t-1} in
\* [0, N), so the splits of two different secrets give the same set of
\* possible (t-1)-share views.
C30_ThresholdSecrecy ==
  (~IsNil(vSplit) /\ Deref(vSplit).out.err = "none" /\ vArgs.threshold >= 2) =>
    LET curve == Deref(vArgs.curve)
        shares == Deref(vSplit).out.shares
    IN \A held \in SUBSET (1..Len(shares)) :
         (Cardinality(held) = vArgs.threshold - 1 /\ HeldIndicesValid(held)) =>
           LET view == [i \in held |-> Deref(Deref(shares[i]).Value)]
           IN /\ view = ViewOf(Deref(vArgs.secret), Deref(vSplit).drawn, held)
              /\ \A secret \in 0..(curve.N - 1) :
                   /\ Cardinality({drawn \in RandomCoefficients(curve, vArgs.threshold) :
                                     ViewOf(secret, drawn, held) = view}) = 1
                   /\ ViewsOf(secret, held) = ViewsOf(Deref(vArgs.secret), held)

\* A threshold-3 split at the indices -1, 1, 2: any two of its shares are
\* held.
C30_Witness ==
  /\ ~IsNil(vSplit) /\ Deref(vSplit).out.err = "none"
  /\ vArgs.threshold = 3 /\ vArgs.indices[1] = Some(0 - 1)
  /\ \A held \in SUBSET (1..3) : Cardinality(held) = 2 => HeldIndicesValid(held)
  /\ Deref(vSplit).drawn # <<0, 0>>

(***************************************************************************)
(* Properties of CheckIndices (SpecIdx).                                   *)
(***************************************************************************)
\* C14: CheckIndices returns an error exactly when the input is empty, some
\* index is 0 modulo N, or two indices are congruent modulo N; otherwise it
\* returns idx mod N for each input in input order, every returned element is
\* in [1, N), all are pairwise distinct, and CheckIndices of the result is the
\* result.
C14_CheckIndices ==
  ~IsNil(vChk) =>
    LET N == Deref(vArgs.curve).N
        ix == vArgs.indices
        n == Len(ix)
        out == Deref(vChk)
        bad == \/ n = 0
               \/ \E i \in 1..n : Deref(ix[i]) % N = 0
               \/ \E i, j \in 1..n : i # j /\ (Deref(ix[i]) - Deref(ix[j])) % N = 0
    IN /\ out.err \notin {"none", "panic"} <=> bad
       /\ out.err = "none" =>
            /\ out.normalized = [i \in 1..n |-> Some(Deref(ix[i]) % N)]
            /\ \A i \in 1..n : Deref(out.normalized[i]) \in 1..(N - 1)
            /\ \A i, j \in 1..n : i # j => out.normalized[i] # out.normalized[j]
            /\ CheckIndices(vArgs.curve, out.normalized) = out
       /\ out.err # "panic"

\* The indices -1, 2, 3 under N = 5 normalized to 4, 2, 3.
C14_Witness ==
  /\ ~IsNil(vChk)
  /\ vArgs.indices = <<Some(0 - 1), Some(2), Some(3)>>
  /\ Deref(vChk) = [err |-> "none", normalized |-> <<Some(4), Some(2), Some(3)>>]

====
